---------------------------- MODULE Spec2Model ----------------------------
(***************************************************************************)
(* A model of cmicro, the Micro compiler: the lexer (lexer.c), the         *)
(* recursive-descent parser (parser.c), the QBE emitter (codegen.c) and    *)
(* the driver (main.c).                                                    *)
(*                                                                         *)
(* Bytes are integers 0..255 and every C string is a sequence of bytes.    *)
(* A loop of the C code is a RECURSIVE operator; a function that reads and *)
(* writes program state takes the state as a record and returns the new    *)
(* record.  malloc, realloc, strdup and calloc are taken to succeed, and a  *)
(* source file holds no NUL byte.                                          *)
(***************************************************************************)
EXTENDS Integers, Sequences, FiniteSets, TLC

VARIABLES
    pc,          \* main.c: where the driver is ("start", "lex", "parse", "exit")
    source,      \* main.c: the bytes read from the source file
    lex,         \* main.c: lexer_t lex (pos, line, column) plus the diagnostics it printed
    tokens,      \* main.c: the token vector filled by the tokenising loop
    exit_status, \* main.c: the value main returns (-1 while running)
    parse_in,    \* parser.c: the token vector handed to ast_gen / parse_expression
    parsed,      \* parser.c: what the call left: parser state (pos, error, log) and node
    gen_in,      \* codegen.c: the Program handed to codegen_generate / the node lowered
    gen          \* codegen.c: what the call left: ctx, files on disk, return value

vars == <<pc, source, lex, tokens, exit_status, parse_in, parsed, gen_in, gen>>

-----------------------------------------------------------------------------
(* Bytes and C strings *)

Ascii ==
    " " :> 32 @@ "!" :> 33 @@ "\"" :> 34 @@ "#" :> 35 @@ "$" :> 36 @@ "%" :> 37 @@
    "&" :> 38 @@ "'" :> 39 @@ "(" :> 40 @@ ")" :> 41 @@ "*" :> 42 @@ "+" :> 43 @@
    "," :> 44 @@ "-" :> 45 @@ "." :> 46 @@ "/" :> 47 @@ "0" :> 48 @@ "1" :> 49 @@
    "2" :> 50 @@ "3" :> 51 @@ "4" :> 52 @@ "5" :> 53 @@ "6" :> 54 @@ "7" :> 55 @@
    "8" :> 56 @@ "9" :> 57 @@ ":" :> 58 @@ ";" :> 59 @@ "<" :> 60 @@ "=" :> 61 @@
    ">" :> 62 @@ "?" :> 63 @@ "@" :> 64 @@ "A" :> 65 @@ "B" :> 66 @@ "C" :> 67 @@
    "D" :> 68 @@ "E" :> 69 @@ "F" :> 70 @@ "G" :> 71 @@ "H" :> 72 @@ "I" :> 73 @@
    "J" :> 74 @@ "K" :> 75 @@ "L" :> 76 @@ "M" :> 77 @@ "N" :> 78 @@ "O" :> 79 @@
    "P" :> 80 @@ "Q" :> 81 @@ "R" :> 82 @@ "S" :> 83 @@ "T" :> 84 @@ "U" :> 85 @@
    "V" :> 86 @@ "W" :> 87 @@ "X" :> 88 @@ "Y" :> 89 @@ "Z" :> 90 @@ "[" :> 91 @@
    "\\" :> 92 @@ "]" :> 93 @@ "^" :> 94 @@ "_" :> 95 @@ "a" :> 97 @@
    "b" :> 98 @@ "c" :> 99 @@ "d" :> 100 @@ "e" :> 101 @@ "f" :> 102 @@ "g" :> 103 @@
    "h" :> 104 @@ "i" :> 105 @@ "j" :> 106 @@ "k" :> 107 @@ "l" :> 108 @@ "m" :> 109 @@
    "n" :> 110 @@ "o" :> 111 @@ "p" :> 112 @@ "q" :> 113 @@ "r" :> 114 @@ "s" :> 115 @@
    "t" :> 116 @@ "u" :> 117 @@ "v" :> 118 @@ "w" :> 119 @@ "x" :> 120 @@ "y" :> 121 @@
    "z" :> 122 @@ "{" :> 123 @@ "|" :> 124 @@ "}" :> 125 @@ "~" :> 126

\* The bytes of a text written as a tuple of one-character strings;
\* a number in the tuple is a byte given by its value (10 is a newline).
B(t) == [i \in 1..Len(t) |-> IF t[i] \in DOMAIN Ascii THEN Ascii[t[i]] ELSE t[i]]

\* The byte of one character.
Ch(c) == Ascii[c]

NUL == 0

\* The element of a one-element set.  The({e(v) : v \in {x}}) is e(v) for
\* v = x: the result of a call is bound once and used many times.
The(S) == CHOOSE v \in S : TRUE

IsSpace(c)  == c \in (9..13) \cup {32}
IsDigit(c)  == c \in 48..57
IsAlpha(c)  == c \in (65..90) \cup (97..122)
IsAlnum(c)  == IsAlpha(c) \/ IsDigit(c)
IsXDigit(c) == IsDigit(c) \/ c \in (65..70) \cup (97..102)
ToLower(c)  == IF c \in 65..90 THEN c + 32 ELSE c

\* strncmp(a, w, n) == 0, where w is a NUL-terminated literal and a points at
\* bytes none of which is NUL: the first n bytes agree, the comparison
\* stopping at w's terminator.
StrnEq(a, w, n) ==
    /\ n <= Len(w)
    /\ n <= Len(a)
    /\ \A i \in 1..n : a[i] = w[i]

\* sprintf("%d", n) for n >= 0.
RECURSIVE Dec(_)
Dec(n) == IF n < 10 THEN <<48 + n>> ELSE Dec(n \div 10) \o <<48 + (n % 10)>>

-----------------------------------------------------------------------------
(* lexer.c *)

keywords ==
    << <<B(<<"i","m","p","o","r","t">>), "TOKEN_KEYWORD">>,
       <<B(<<"t","y","p","e","d","e","f">>), "TOKEN_KEYWORD">>,
       <<B(<<"r","e","t","u","r","n">>), "TOKEN_KEYWORD">>,
       <<B(<<"i","f">>), "TOKEN_KEYWORD">>,
       <<B(<<"e","l","s","e">>), "TOKEN_KEYWORD">>,
       <<B(<<"w","h","i","l","e">>), "TOKEN_KEYWORD">>,
       <<B(<<"f","o","r">>), "TOKEN_KEYWORD">>,
       <<B(<<"v","o","i","d">>), "TOKEN_KEYWORD">>,
       <<B(<<"c","h","a","r">>), "TOKEN_KEYWORD">>,
       <<B(<<"i","n","t">>), "TOKEN_KEYWORD">>,
       <<B(<<"u","i","n","t">>), "TOKEN_KEYWORD">>,
       <<B(<<"f","l","o","a","t">>), "TOKEN_KEYWORD">>,
       <<B(<<"d","o","u","b","l","e">>), "TOKEN_KEYWORD">>,
       <<B(<<"t","r","u","e">>), "TOKEN_BLIT">>,
       <<B(<<"f","a","l","s","e">>), "TOKEN_BLIT">> >>

operators ==
    << <<B(<<"+">>), "TOKEN_PLUS">>,    <<B(<<"-">>), "TOKEN_MINUS">>,
       <<B(<<"*">>), "TOKEN_STAR">>,    <<B(<<"/">>), "TOKEN_SLASH">>,
       <<B(<<"%">>), "TOKEN_PERCENT">>, <<B(<<"=","=">>), "TOKEN_EQ">>,
       <<B(<<"!","=">>), "TOKEN_NEQ">>, <<B(<<"=">>), "TOKEN_ASSIGN">>,
       <<B(<<"<","=">>), "TOKEN_LTE">>, <<B(<<">","=">>), "TOKEN_GTE">>,
       <<B(<<"<">>), "TOKEN_LT">>,      <<B(<<">">>), "TOKEN_GT">>,
       <<B(<<"(">>), "TOKEN_LPAREN">>,  <<B(<<")">>), "TOKEN_RPAREN">>,
       <<B(<<"{">>), "TOKEN_LBRACE">>,  <<B(<<"}">>), "TOKEN_RBRACE">>,
       <<B(<<";">>), "TOKEN_SEMI">>,    <<B(<<",">>), "TOKEN_COMMA">>,
       <<B(<<".">>), "TOKEN_DOT">> >>

\* lexer_t after `lexer_t lex = {source, read_bytes, 0, 1, 1}`; diags are the
\* fatal diagnostics the lexer has printed; hang says that the lexer is in a
\* loop that makes no progress, so the call in progress never returns;
\* str_len is the largest number of bytes a string literal has written from
\* the start of the static str_buf.
LexerInit ==
    [pos |-> 0, line |-> 1, column |-> 1, diags |-> <<>>, hang |-> FALSE,
     str_len |-> 0]

\* token_t tok = {0}
token_zero ==
    [type |-> "TOKEN_NLIT", pos |-> 0, line |-> 0, column |-> 0,
     lexoff |-> -1, len |-> 0, lexeme |-> <<>>, i64 |-> 0, str |-> <<>>]

\* The len bytes at offset off of the source (a lexeme view).
Slice(src, off, n) == [i \in 1..n |-> IF off + i <= Len(src) THEN src[off + i] ELSE NUL]

lexer_peek(src, lx) == IF lx.pos < Len(src) THEN src[lx.pos + 1] ELSE NUL

\* A lexer_advance that counts every byte as a column.
lexer_advance_NoLine(src, lx) ==
    IF lexer_peek(src, lx) = NUL THEN lx
    ELSE [lx EXCEPT !.pos = @ + 1, !.column = @ + 1]

lexer_advance(src, lx) ==
    LET c == lexer_peek(src, lx)
    IN  IF c = NUL THEN lx
        ELSE IF c = 10
             THEN [lx EXCEPT !.pos = @ + 1, !.line = @ + 1, !.column = 1]
             ELSE [lx EXCEPT !.pos = @ + 1, !.column = @ + 1]

\* ERROR_FATAL(lex->src, line, column, message)
LexFatal(lx, line, column, msg) ==
    [lx EXCEPT !.diags = Append(@, [msg |-> msg, line |-> line, column |-> column])]

\* lexer_error: the token it builds and the lexer after the diagnostic.
lexer_error(src, lx, start, msg) ==
    [lx  |-> LexFatal(lx, lx.line, lx.column, msg),
     tok |-> [token_zero EXCEPT !.type = "TOKEN_ERROR", !.pos = start,
                                !.line = lx.line, !.column = lx.column,
                                !.lexoff = start, !.len = lx.pos - start,
                                !.lexeme = Slice(src, start, lx.pos - start)]]

RECURSIVE EscOctal_NoLimit(_, _, _, _)
\* An octal digits loop that takes every octal digit that follows.
EscOctal_NoLimit(src, lx, val, left) ==
    IF lexer_peek(src, lx) >= 48 /\ lexer_peek(src, lx) <= 55
    THEN EscOctal_NoLimit(src, lexer_advance(src, lx),
                          (val * 8) + (lexer_peek(src, lx) - 48), left - 1)
    ELSE [lx |-> lx, val |-> val]

\* The octal digits loop of lexer_parse_escape: at most `left` more digits.
RECURSIVE EscOctal(_, _, _, _)
EscOctal(src, lx, val, left) ==
    LET next == lexer_peek(src, lx)
    IN  IF left > 0 /\ next >= 48 /\ next <= 55
        THEN EscOctal(src, lexer_advance(src, lx), (val * 8) + (next - 48), left - 1)
        ELSE [lx |-> lx, val |-> val]

\* The hex digits loop of lexer_parse_escape.
RECURSIVE EscHex(_, _, _)
EscHex(src, lx, val) ==
    LET d == lexer_peek(src, lx)
    IN  IF IsXDigit(d)
        THEN EscHex(src, lexer_advance(src, lx),
                    val * 16 + (IF IsDigit(d) THEN d - 48 ELSE ToLower(d) - 97 + 10))
        ELSE [lx |-> lx, val |-> val]

\* lexer_parse_escape: the byte of the escape and the lexer after it.
\* (char) val keeps the low eight bits.
lexer_parse_escape(src, lx0) ==
    LET c == lexer_peek(src, lx0)
    IN  The({
        CASE c = Ch("n") -> [lx |-> lx, ch |-> 10]
          [] c = Ch("t") -> [lx |-> lx, ch |-> 9]
          [] c = Ch("r") -> [lx |-> lx, ch |-> 13]
          [] c \in 48..55 ->
                The({[lx |-> r.lx, ch |-> r.val % 256] :
                     r \in {EscOctal(src, lx, c - 48, 2)}})
          [] c = Ch("x") ->
                The({[lx |-> r.lx, ch |-> r.val % 256] : r \in {EscHex(src, lx, 0)}})
          [] c = Ch("'") -> [lx |-> lx, ch |-> 39]
          [] c = Ch("\"") -> [lx |-> lx, ch |-> 34]
          [] c = Ch("\\") -> [lx |-> lx, ch |-> 92]
          [] c = Ch("?") -> [lx |-> lx, ch |-> 63]
          [] c = Ch("a") -> [lx |-> lx, ch |-> 7]
          [] c = Ch("b") -> [lx |-> lx, ch |-> 8]
          [] c = Ch("f") -> [lx |-> lx, ch |-> 12]
          [] c = Ch("v") -> [lx |-> lx, ch |-> 11]
          [] OTHER -> [lx |-> lx, ch |-> c]
        : lx \in {lexer_advance(src, lx0)}})

\* while (lexer_peek(lex) != '\n' && lexer_peek(lex) != '\0') lexer_advance(lex);
RECURSIVE SkipLine(_, _)
SkipLine(src, lx) ==
    IF lexer_peek(src, lx) # 10 /\ lexer_peek(src, lx) # NUL
    THEN SkipLine(src, lexer_advance(src, lx))
    ELSE lx

\* The scan for the end of a block comment.  On a NUL byte before the last
\* byte lexer_advance returns without a step and the condition of the loop
\* is as it was: the loop goes on for ever.
RECURSIVE SkipBlock(_, _)
SkipBlock(src, lx) ==
    IF /\ lx.pos + 1 < Len(src)
       /\ ~(lexer_peek(src, lx) = Ch("*") /\ src[lx.pos + 2] = Ch("/"))
    THEN IF lexer_peek(src, lx) = NUL THEN [lx EXCEPT !.hang = TRUE]
         ELSE SkipBlock(src, lexer_advance(src, lx))
    ELSE lx

\* lexer_skip_ws_and_comments.  The token lexer_error builds for an
\* unterminated block comment is dropped by the C code: only the diagnostic
\* is left and the loop goes on.
RECURSIVE lexer_skip_ws_and_comments(_, _)
lexer_skip_ws_and_comments(src, lx) ==
    LET c == lexer_peek(src, lx)
    IN  IF IsSpace(c)
        THEN lexer_skip_ws_and_comments(src, lexer_advance(src, lx))
        ELSE IF c = Ch("/") /\ lx.pos + 1 < Len(src) /\ src[lx.pos + 2] = Ch("/")
        THEN lexer_skip_ws_and_comments(
                 src, SkipLine(src, lexer_advance(src, lexer_advance(src, lx))))
        ELSE IF c = Ch("/") /\ lx.pos + 1 < Len(src) /\ src[lx.pos + 2] = Ch("*")
        THEN The({
             IF e.hang THEN e
             ELSE IF lexer_peek(src, e) = Ch("*") /\ e.pos + 1 < Len(src)
             THEN lexer_skip_ws_and_comments(
                      src, lexer_advance(src, lexer_advance(src, e)))
             ELSE lexer_skip_ws_and_comments(
                      src, lexer_error(src, e, e.pos, "Unterminated block comment").lx)
             : e \in {SkipBlock(src, lexer_advance(src, lexer_advance(src, lx)))}})
        ELSE lx

lookup_keyword(lexeme, len) ==
    LET hits == {i \in 1..Len(keywords) :
                    Len(keywords[i][1]) = len /\ StrnEq(lexeme, keywords[i][1], len)}
    IN  IF hits = {} THEN "TOKEN_IDENT"
        ELSE keywords[CHOOSE i \in hits : \A j \in hits : i <= j][2]

\* A lookup_operator that returns the last table entry that matches.
lookup_operator_Last(src, lx) ==
    LET hits == {i \in 1..Len(operators) :
                    /\ lx.pos + Len(operators[i][1]) <= Len(src)
                    /\ StrnEq(Slice(src, lx.pos, Len(operators[i][1])),
                              operators[i][1], Len(operators[i][1]))}
    IN  IF hits = {} THEN [type |-> "TOKEN_IDENT", len |-> 0]
        ELSE LET i == CHOOSE i \in hits : \A j \in hits : i >= j
             IN  [type |-> operators[i][2], len |-> Len(operators[i][1])]

\* lookup_operator: the first table entry the source starts with at pos.
lookup_operator(src, lx) ==
    LET hits == {i \in 1..Len(operators) :
                    /\ lx.pos + Len(operators[i][1]) <= Len(src)
                    /\ StrnEq(Slice(src, lx.pos, Len(operators[i][1])),
                              operators[i][1], Len(operators[i][1]))}
    IN  IF hits = {} THEN [type |-> "TOKEN_IDENT", len |-> 0]
        ELSE LET i == CHOOSE i \in hits : \A j \in hits : i <= j
             IN  [type |-> operators[i][2], len |-> Len(operators[i][1])]

\* The number loop of lexer_next.
RECURSIVE ScanNumber(_, _, _)
ScanNumber(src, lx, has_dot) ==
    LET c == lexer_peek(src, lx)
    IN  IF IsDigit(c) \/ c = Ch(".")
        THEN IF c = Ch(".") /\ has_dot
             THEN [lx |-> lx, has_dot |-> has_dot]
             ELSE ScanNumber(src, lexer_advance(src, lx), has_dot \/ c = Ch("."))
        ELSE [lx |-> lx, has_dot |-> has_dot]

\* strtoll(lexeme, NULL, 10) on a run of decimal digits (the values of the
\* model stay far below 2^63).
RECURSIVE StrToLL(_)
StrToLL(digits) ==
    IF digits = <<>> THEN 0
    ELSE StrToLL(SubSeq(digits, 1, Len(digits) - 1)) * 10 + (digits[Len(digits)] - 48)

\* The identifier loop of lexer_next.
RECURSIVE ScanIdent(_, _)
ScanIdent(src, lx) ==
    IF IsAlnum(lexer_peek(src, lx)) \/ lexer_peek(src, lx) = Ch("_")
    THEN ScanIdent(src, lexer_advance(src, lx))
    ELSE lx

\* Capacity of `static char str_buf[1024]`.
STR_BUF_SIZE == 1024

\* n calls of lexer_advance, as two halves.
RECURSIVE AdvanceN(_, _, _)
AdvanceN(src, lx, n) ==
    IF n = 0 THEN lx
    ELSE IF n = 1 THEN lexer_advance(src, lx)
    ELSE The({AdvanceN(src, h, n - n \div 2) : h \in {AdvanceN(src, lx, n \div 2)}})

\* The pos at which the run of bytes that are copied as they are (neither
\* `"`, nor a backslash, nor NUL) ends, lx being in the body of a string.
PlainRunEnd(src, lx) ==
    The({CHOOSE j \in ends : \A k \in ends : j <= k
         : ends \in {{j \in lx.pos..Len(src) :
                        \/ j = Len(src)
                        \/ src[j + 1] \in {Ch("\""), Ch("\\"), NUL}}}})

\* The body loop of a string literal: the cooked bytes written to str_buf,
\* `str_buf[str_len++] = ...` with no test of str_len.  A run of bytes
\* copied as they are is taken in one step.
RECURSIVE ScanString(_, _, _)
ScanString(src, lx, buf) ==
    LET ch == lexer_peek(src, lx)
    IN  IF ch # Ch("\"") /\ ch # NUL
        THEN IF ch = Ch("\\")
             THEN The({ScanString(src, e.lx, Append(buf, e.ch)) :
                       e \in {lexer_parse_escape(src, lexer_advance(src, lx))}})
             ELSE The({ScanString(src, AdvanceN(src, lx, e - lx.pos),
                                  buf \o SubSeq(src, lx.pos + 1, e))
                       : e \in {PlainRunEnd(src, lx)}})
        ELSE [lx  |-> [lx EXCEPT !.str_len = IF Len(buf) > @ THEN Len(buf) ELSE @],
              buf |-> buf]

\* lexer_next after lexer_skip_ws_and_comments, lx being the lexer then.
LexToken(src, lx) ==
    LET tok == [token_zero EXCEPT !.pos = lx.pos, !.line = lx.line, !.column = lx.column]
        c   == lexer_peek(src, lx)
    IN  IF c = NUL
        THEN [lx |-> lx, tok |-> [tok EXCEPT !.type = "TOKEN_EOF"]]
        ELSE IF IsDigit(c)
        THEN The({
             LET length == r.lx.pos - lx.pos
                 lexeme == Slice(src, lx.pos, length)
             IN  [lx  |-> r.lx,
                  tok |-> [tok EXCEPT
                      !.lexoff = lx.pos, !.len = length, !.lexeme = lexeme,
                      !.type = IF r.has_dot THEN "TOKEN_FLIT" ELSE "TOKEN_NLIT",
                      !.i64 = IF r.has_dot THEN 0 ELSE StrToLL(lexeme)]]
             : r \in {ScanNumber(src, lx, FALSE)}})
        ELSE IF IsAlpha(c) \/ c = Ch("_")
        THEN The({
             LET length == e.pos - lx.pos
                 lexeme == Slice(src, lx.pos, length)
                 type   == lookup_keyword(lexeme, length)
             IN  [lx  |-> e,
                  tok |-> [tok EXCEPT
                      !.lexoff = lx.pos, !.len = length, !.lexeme = lexeme,
                      !.type = type,
                      !.i64 = IF type = "TOKEN_BLIT" /\ length = 4
                                 /\ StrnEq(lexeme, B(<<"t","r","u","e">>), 4)
                              THEN 1 ELSE 0]]
             : e \in {ScanIdent(src, lx)}})
        ELSE IF c = Ch("'")
        THEN The({
             LET start == q.pos
             IN  The({
                 IF lexer_peek(src, v.lx) # Ch("'")
                 THEN lexer_error(src, v.lx, start - 1, "Unterminated char literal")
                 ELSE LET e == lexer_advance(src, v.lx)
                      IN  [lx  |-> e,
                           tok |-> [tok EXCEPT
                               !.pos = start - 1, !.line = e.line, !.column = e.column,
                               !.lexoff = start - 1, !.len = e.pos - (start - 1),
                               !.lexeme = Slice(src, start - 1, e.pos - (start - 1)),
                               !.type = "TOKEN_CLIT", !.i64 = v.ch]]
                 : v \in {IF lexer_peek(src, q) = Ch("\\")
                          THEN lexer_parse_escape(src, lexer_advance(src, q))
                          ELSE [lx |-> lexer_advance(src, q), ch |-> lexer_peek(src, q)]}})
             : q \in {lexer_advance(src, lx)}})
        ELSE IF c = Ch("\"")
        THEN The({
             LET start == q.pos
             IN  The({
                 IF lexer_peek(src, r.lx) # Ch("\"")
                 THEN lexer_error(src, r.lx, start - 1, "Unterminated string literal")
                 ELSE LET e == lexer_advance(src, r.lx)
                      IN  [lx  |-> e,
                           tok |-> [tok EXCEPT
                               !.pos = start - 1, !.line = e.line, !.column = e.column,
                               !.lexoff = start, !.len = e.pos - start - 1,
                               !.lexeme = Slice(src, start, e.pos - start - 1),
                               !.type = "TOKEN_SLIT", !.str = r.buf]]
                 : r \in {ScanString(src, q, <<>>)}})
             : q \in {lexer_advance(src, lx)}})
        ELSE The({
             IF op.type # "TOKEN_IDENT"
             THEN [lx  |-> [lx EXCEPT !.pos = @ + op.len, !.column = @ + op.len],
                   tok |-> [tok EXCEPT !.type = op.type, !.lexoff = lx.pos,
                                       !.len = op.len,
                                       !.lexeme = Slice(src, lx.pos, op.len)]]
             ELSE [lx  |-> LexFatal(lexer_advance(src, lx), tok.line, tok.column,
                                    "Unexpected character"),
                   tok |-> [tok EXCEPT !.type = "TOKEN_ERROR", !.lexoff = tok.pos,
                                       !.len = 1,
                                       !.lexeme = Slice(src, tok.pos, 1)]]
             : op \in {lookup_operator(src, lx)}})

\* What a write beyond the end of str_buf can do: the bytes land in the
\* memory after the array and are read back from there, or the write faults.
StrBufOutcomes(lx) ==
    IF lx.str_len > STR_BUF_SIZE THEN {"written", "fault"} ELSE {"written"}

\* lexer_next: the token returned and the lexer after the call; no token is
\* returned when lexer_skip_ws_and_comments does not return (lx.hang).
lexer_next(src, lx0) ==
    The({IF lx.hang THEN [lx |-> lx, tok |-> token_zero] ELSE LexToken(src, lx)
         : lx \in {lexer_skip_ws_and_comments(src, lx0)}})

-----------------------------------------------------------------------------
(* parser.h: AST nodes.  A char* is a sequence of bytes, NoStr when NULL; an *)
(* ast_node_t* is a record, Null when NULL; a param_node_t list and a node   *)
(* array are sequences.                                                      *)

Null  == [type |-> "NULL"]
NoStr == <<-1>>

\* Every ast_create_* starts with `if (error) return NULL;`.
ast_create_binop(p, op, left, right) ==
    IF p.error THEN Null
    ELSE [type |-> "NODE_BINOP", op |-> op, left |-> left, right |-> right]

ast_create_number_int(p, value) ==
    IF p.error THEN Null
    ELSE [type |-> "NODE_NUMBER", lit_type |-> "TOKEN_NLIT", i64 |-> value, f64 |-> <<>>]

\* A double is kept as the digits it was read from.
ast_create_number_float(p, value) ==
    IF p.error THEN Null
    ELSE [type |-> "NODE_NUMBER", lit_type |-> "TOKEN_FLIT", i64 |-> 0, f64 |-> value]

ast_create_string(p, value, len) ==
    IF p.error THEN Null
    ELSE [type |-> "NODE_STRING", value |-> value, len |-> len]

ast_create_ident(p, name) ==
    IF p.error THEN Null ELSE [type |-> "NODE_IDENT", name |-> name]

ast_create_assign(p, name, type_name, value) ==
    IF p.error THEN Null
    ELSE [type |-> "NODE_ASSIGN", name |-> name, type_name |-> type_name, value |-> value]

ast_create_return(p, expr) ==
    IF p.error THEN Null ELSE [type |-> "NODE_RETURN", expr |-> expr]

ast_create_func_def(p, name, return_type, params, root, is_declaration) ==
    IF p.error THEN Null
    ELSE [type |-> "NODE_FUNC_DEF", name |-> name, return_type |-> return_type,
          params |-> params, root |-> root, is_declaration |-> is_declaration]

ast_create_func_call(p, name, args) ==
    IF p.error THEN Null ELSE [type |-> "NODE_FUNC_CALL", name |-> name, args |-> args]

ast_create_block(p, stmts) ==
    IF p.error THEN Null ELSE [type |-> "NODE_BLOCK", stmts |-> stmts]

ast_create_program(p, func_defs) ==
    IF p.error THEN Null ELSE [type |-> "NODE_PROGRAM", func_defs |-> func_defs]

ast_create_if(p, condition, then_block, else_block) ==
    IF p.error THEN Null
    ELSE [type |-> "NODE_IF", condition |-> condition, then_block |-> then_block,
          else_block |-> else_block]

ast_create_elseif(p, condition, then_block, else_block) ==
    IF p.error THEN Null
    ELSE [type |-> "NODE_ELSEIF", condition |-> condition, then_block |-> then_block,
          else_block |-> else_block]

ast_create_else(p, block) ==
    IF p.error THEN Null ELSE [type |-> "NODE_ELSE", block |-> block]

\* ast_create_param sets is_variadic = false; parse_param_list sets it after.
ast_create_param(p, name, type_name) ==
    [name |-> name, type_name |-> type_name, is_variadic |-> FALSE]

ast_create_import(p, module) ==
    IF p.error THEN Null ELSE [type |-> "NODE_IMPORT", module |-> module]

-----------------------------------------------------------------------------
(* parser.c: the parser.  p is parser_t (tokens, pos) with the file's static *)
(* `error` flag and the diagnostics printed; log records each entry and      *)
(* return of a parse function, each parser_advance and the parser_error that *)
(* sets the flag, with pos and the flag after it.                            *)

ParserInit(toks) ==
    [tokens |-> toks, pos |-> 0, error |-> FALSE, diags |-> <<>>, log |-> <<>>]

Log(p, ev, fn, isnull) ==
    [p EXCEPT !.log = Append(@, [ev |-> ev, fn |-> fn, pos |-> p.pos,
                                 error |-> p.error, null |-> isnull])]

\* A read past the end of the token vector yields a token of no known type.
parser_peek(p) ==
    IF p.pos >= 0 /\ p.pos < Len(p.tokens) THEN p.tokens[p.pos + 1]
    ELSE [token_zero EXCEPT !.type = "OUT_OF_BOUNDS"]

parser_advance(p) == Log([p EXCEPT !.pos = @ + 1], "advance", "parser_advance", FALSE)

\* parser->pos-- and parser->pos -= 2
Rewind(p, n) == [p EXCEPT !.pos = @ - n]

\* A variant of parser_error that reports the diagnostic and leaves the flag.
parser_error_NoFlag(p, message) ==
    Log([p EXCEPT !.diags = Append(@, [msg |-> message,
                                       line |-> parser_peek(p).line,
                                       column |-> parser_peek(p).column])],
        "error", "parser_error", FALSE)

parser_error(p, message) ==
    IF ~p.error
    THEN Log([p EXCEPT !.error = TRUE,
                       !.diags = Append(@, [msg |-> message,
                                            line |-> parser_peek(p).line,
                                            column |-> parser_peek(p).column])],
             "error", "parser_error", FALSE)
    ELSE p

\* A variant of get_precedence with the multiplicative operators at the level
\* of the additive ones.
get_precedence_Flat(op) ==
    CASE op \in {"TOKEN_STAR", "TOKEN_SLASH", "TOKEN_PERCENT", "TOKEN_PLUS",
                 "TOKEN_MINUS"} -> 2
      [] op \in {"TOKEN_EQ", "TOKEN_NEQ", "TOKEN_LT", "TOKEN_GT", "TOKEN_LTE",
                 "TOKEN_GTE"} -> 1
      [] op = "TOKEN_ASSIGN" -> 0
      [] OTHER -> -1

get_precedence(op) ==
    CASE op \in {"TOKEN_STAR", "TOKEN_SLASH", "TOKEN_PERCENT"} -> 3
      [] op \in {"TOKEN_PLUS", "TOKEN_MINUS"} -> 2
      [] op \in {"TOKEN_EQ", "TOKEN_NEQ", "TOKEN_LT", "TOKEN_GT", "TOKEN_LTE",
                 "TOKEN_GTE"} -> 1
      [] op = "TOKEN_ASSIGN" -> 0
      [] OTHER -> -1

\* Entry and return of a parse function.
Enter(p, fn) == Log(p, "enter", fn, FALSE)
Ret(fn, p, node) == [p |-> Log(p, "return", fn, node = Null), node |-> node]

\* tok.type == TOKEN_KEYWORD && strncmp(tok.lexeme, word, tok.len) == 0
IsKeyword(tok, word) ==
    tok.type = "TOKEN_KEYWORD" /\ StrnEq(tok.lexeme, word, tok.len)

KW_if     == B(<<"i","f">>)
KW_else   == B(<<"e","l","s","e">>)
KW_return == B(<<"r","e","t","u","r","n">>)
KW_import == B(<<"i","m","p","o","r","t">>)

RECURSIVE parse_factor(_), parse_expression(_, _), ExprLoop(_, _, _),
          parse_func_call(_), ArgLoop(_, _), parse_statement(_), StmtLoop(_, _),
          parse_func_def(_), parse_if_statement(_)

parse_factor(p0) ==
    LET fn  == "parse_factor"
        p   == Enter(p0, fn)
        tok == parser_peek(p)
    IN  IF p0.error THEN Ret(fn, p, Null)
        ELSE IF tok.type = "TOKEN_NLIT"
        THEN LET q == parser_advance(p)
             IN  Ret(fn, q, ast_create_number_int(q, tok.i64))
        ELSE IF tok.type = "TOKEN_FLIT"
        THEN LET q == parser_advance(p)
             IN  Ret(fn, q, ast_create_number_float(q, tok.lexeme))
        ELSE IF tok.type = "TOKEN_SLIT"
        THEN LET q == parser_advance(p)
             IN  Ret(fn, q, ast_create_string(q, tok.str, Len(tok.str)))
        ELSE IF tok.type = "TOKEN_IDENT"
        THEN LET q == parser_advance(p)
             IN  IF parser_peek(q).type = "TOKEN_LPAREN"
                 THEN The({Ret(fn, r.p, r.node) : r \in {parse_func_call(Rewind(q, 1))}})
                 ELSE Ret(fn, q, ast_create_ident(q, tok.lexeme))
        ELSE IF tok.type = "TOKEN_LPAREN"
        THEN The({
             IF r.p.error THEN Ret(fn, r.p, Null)
             ELSE IF parser_peek(r.p).type # "TOKEN_RPAREN"
             THEN Ret(fn, parser_error(r.p, "Expected ')'"), Null)
             ELSE Ret(fn, parser_advance(r.p), r.node)
             : r \in {parse_expression(parser_advance(p), 0)}})
        ELSE Ret(fn, parser_error(p, "Expected number, string, identifier, or '('"), Null)

\* The `while (1)` loop of parse_expression; failed: it returned NULL on error.
ExprLoop(p, left, min_precedence) ==
    LET tok        == parser_peek(p)
        precedence == get_precedence(tok.type)
    IN  IF precedence < min_precedence
        THEN [p |-> p, node |-> left]
        ELSE The({
             IF r.p.error THEN [p |-> r.p, node |-> Null]
             ELSE ExprLoop(r.p, ast_create_binop(r.p, tok.type, left, r.node),
                           min_precedence)
             : r \in {parse_expression(parser_advance(p), precedence + 1)}})

parse_expression(p0, min_precedence) ==
    LET fn == "parse_expression"
        p  == Enter(p0, fn)
    IN  IF p0.error THEN Ret(fn, p, Null)
        ELSE The({
             IF l.p.error THEN Ret(fn, l.p, Null)
             ELSE The({Ret(fn, r.p, r.node) :
                       r \in {ExprLoop(l.p, l.node, min_precedence)}})
             : l \in {parse_factor(p)}})

\* The argument loop of parse_func_call; failed: the call returns NULL.
ArgLoop(p, args) ==
    IF parser_peek(p).type # "TOKEN_RPAREN"
    THEN The({
         IF r.p.error \/ r.node = Null
         THEN [p |-> parser_error(r.p, "Failed to parse function call argument"),
               args |-> <<>>, failed |-> TRUE]
         ELSE IF parser_peek(r.p).type = "TOKEN_COMMA"
         THEN ArgLoop(parser_advance(r.p), Append(args, r.node))
         ELSE IF parser_peek(r.p).type # "TOKEN_RPAREN"
         THEN [p |-> parser_error(r.p, "Expected ',' or ')' in argument list"),
               args |-> <<>>, failed |-> TRUE]
         ELSE ArgLoop(r.p, Append(args, r.node))
         : r \in {parse_expression(p, 0)}})
    ELSE [p |-> p, args |-> args, failed |-> FALSE]

parse_func_call(p0) ==
    LET fn       == "parse_func_call"
        p        == Enter(p0, fn)
        name_tok == parser_peek(p)
    IN  IF p0.error THEN Ret(fn, p, Null)
        ELSE IF name_tok.type # "TOKEN_IDENT"
        THEN Ret(fn, parser_error(p, "Expected identifier for function call"), Null)
        ELSE LET q == parser_advance(p)
             IN  IF parser_peek(q).type # "TOKEN_LPAREN"
                 THEN Ret(fn, parser_error(q, "Expected '(' for function call"), Null)
                 ELSE The({
                      IF a.failed THEN Ret(fn, a.p, Null)
                      ELSE IF parser_peek(a.p).type # "TOKEN_RPAREN"
                      THEN Ret(fn, parser_error(a.p,
                                   "Expected ')' to close argument list"), Null)
                      ELSE LET e == parser_advance(a.p)
                           IN  Ret(fn, e,
                                   ast_create_func_call(e, name_tok.lexeme, a.args))
                      : a \in {ArgLoop(parser_advance(q), <<>>)}})

\* The loop of parse_param_list after '(' ; failed: it returned NULL on error.
RECURSIVE ParamLoop(_, _)

\* A variant of ParamEllipsis that takes a comma after the ellipsis and goes
\* on with the list.
ParamEllipsis_AllowComma(p, params) ==
    LET q     == parser_advance(p)
        param == [ast_create_param(q, NoStr, NoStr) EXCEPT !.is_variadic = TRUE]
    IN  IF parser_peek(q).type = "TOKEN_COMMA"
        THEN ParamLoop(parser_advance(q), Append(params, param))
        ELSE [p |-> q, params |-> Append(params, param), failed |-> FALSE]

\* The ellipsis case of the loop: the variadic parameter is appended, a comma
\* after it is an error, anything else leaves the loop.
ParamEllipsis(p, params) ==
    LET q     == parser_advance(p)
        param == [ast_create_param(q, NoStr, NoStr) EXCEPT !.is_variadic = TRUE]
    IN  IF parser_peek(q).type = "TOKEN_COMMA"
        THEN [p |-> parser_error(q, "Variadic parameter must be the last in the list"),
              params |-> <<>>, failed |-> TRUE]
        ELSE [p |-> q, params |-> Append(params, param), failed |-> FALSE]

ParamLoop(p, params) ==
    IF parser_peek(p).type # "TOKEN_RPAREN"
    THEN IF parser_peek(p).type = "TOKEN_ELLIPSIS"
         THEN ParamEllipsis(p, params)
         ELSE LET type_tok == parser_peek(p)
              IN  IF type_tok.type # "TOKEN_KEYWORD"
                  THEN [p |-> parser_error(p, "Expected type in parameter list"),
                        params |-> <<>>, failed |-> TRUE]
                  ELSE LET q        == parser_advance(p)
                           name_tok == parser_peek(q)
                       IN  IF name_tok.type # "TOKEN_IDENT"
                           THEN [p |-> parser_error(q,
                                          "Expected identifier in parameter list"),
                                 params |-> <<>>, failed |-> TRUE]
                           ELSE LET r     == parser_advance(q)
                                    param == ast_create_param(r, name_tok.lexeme,
                                                              type_tok.lexeme)
                                IN  IF parser_peek(r).type = "TOKEN_COMMA"
                                    THEN ParamLoop(parser_advance(r),
                                                   Append(params, param))
                                    ELSE IF parser_peek(r).type # "TOKEN_RPAREN"
                                    THEN [p |-> parser_error(r,
                                                   "Expected ',' or ')' in parameter list"),
                                          params |-> <<>>, failed |-> TRUE]
                                    ELSE ParamLoop(r, Append(params, param))
    ELSE [p |-> p, params |-> params, failed |-> FALSE]

\* parse_param_list: the list is in `params`; node is Null when it returned
\* NULL, which is also what an empty list is.
parse_param_list(p0) ==
    LET fn == "parse_param_list"
        p  == Enter(p0, fn)
        none(q) == [Ret(fn, q, Null) EXCEPT !.node = <<>>]
    IN  IF p0.error THEN none(p)
        ELSE IF parser_peek(p).type # "TOKEN_LPAREN"
        THEN none(parser_error(p, "Expected '(' for parameter list"))
        ELSE LET l == ParamLoop(parser_advance(p), <<>>)
             IN  IF l.failed THEN none(l.p)
                 ELSE IF parser_peek(l.p).type # "TOKEN_RPAREN"
                 THEN none(parser_error(l.p, "Expected ')' to close parameter list"))
                 ELSE [p |-> Log(parser_advance(l.p), "return", fn, l.params = <<>>),
                       node |-> l.params]

\* The statement loop of a body: `while (peek != '}') { stmt = parse_statement;
\* if (error) return NULL; if (!stmt) break; stmts[n++] = *stmt; }`.  The
\* same loop is written in parse_func_def, twice in parse_if_statement and
\* in the block case of parse_statement.  StmtLoopBody is the body of the
\* loop after the call, r being what parse_statement returned.
StmtLoopBody(r, stmts) ==
    IF r.p.error THEN [p |-> r.p, stmts |-> <<>>, failed |-> TRUE]
    ELSE IF r.node = Null THEN [p |-> r.p, stmts |-> stmts, failed |-> FALSE]
    ELSE StmtLoop(r.p, Append(stmts, r.node))

StmtLoop(p, stmts) ==
    IF parser_peek(p).type # "TOKEN_RBRACE"
    THEN StmtLoopBody(parse_statement(p), stmts)
    ELSE [p |-> p, stmts |-> stmts, failed |-> FALSE]

\* parse_func_def after the statement loop of the body, b being its outcome.
FuncDefAfterBody(b, name, return_type, params) ==
    LET fn == "parse_func_def"
    IN  IF b.failed THEN Ret(fn, b.p, Null)
        ELSE IF parser_peek(b.p).type # "TOKEN_RBRACE"
        THEN Ret(fn, parser_error(b.p, "Expected '}' to close function body"), Null)
        ELSE LET e     == parser_advance(b.p)
                 block == ast_create_block(e, b.stmts)
             IN  IF block = Null THEN Ret(fn, e, Null)
                 ELSE Ret(fn, e, ast_create_func_def(e, name, return_type,
                                                     params, block, FALSE))

\* parse_func_def after parse_param_list, pl being what it returned.
FuncDefAfterParams(pl, name, return_type) ==
    LET fn     == "parse_func_def"
        params == pl.node
    IN  IF pl.p.error THEN Ret(fn, pl.p, Null)
        ELSE IF parser_peek(pl.p).type = "TOKEN_SEMI"
        THEN LET e == parser_advance(pl.p)
             IN  Ret(fn, e, ast_create_func_def(e, name, return_type, params,
                                                Null, TRUE))
        ELSE IF parser_peek(pl.p).type # "TOKEN_LBRACE"
        THEN Ret(fn, parser_error(pl.p, "Expected '{' for function body"), Null)
        ELSE FuncDefAfterBody(StmtLoop(parser_advance(pl.p), <<>>), name,
                              return_type, params)

parse_func_def(p0) ==
    LET fn              == "parse_func_def"
        p               == Enter(p0, fn)
        return_type_tok == parser_peek(p)
    IN  IF p0.error THEN Ret(fn, p, Null)
        ELSE IF return_type_tok.type # "TOKEN_KEYWORD"
        THEN Ret(fn, parser_error(p, "Expected return type for function definition"), Null)
        ELSE
        LET q        == parser_advance(p)
            name_tok == parser_peek(q)
        IN  IF name_tok.type # "TOKEN_IDENT"
            THEN Ret(fn, parser_error(q, "Expected function name"), Null)
            ELSE FuncDefAfterParams(parse_param_list(parser_advance(q)),
                                    name_tok.lexeme, return_type_tok.lexeme)

\* `else if`: r is what the nested parse_if_statement returned.
ElseIfAfter(r, condition, then_block) ==
    LET fn == "parse_if_statement"
    IN  IF r.p.error THEN Ret(fn, r.p, Null)
        ELSE Ret(fn, r.p, ast_create_if(r.p, condition, then_block, r.node))

\* `else {`: b is the outcome of the statement loop of the else body.
ElseAfterBody(b, condition, then_block) ==
    LET fn == "parse_if_statement"
    IN  IF b.failed THEN Ret(fn, b.p, Null)
        ELSE IF parser_peek(b.p).type # "TOKEN_RBRACE"
        THEN Ret(fn, parser_error(b.p, "Expected '}' to close else body"), Null)
        ELSE LET e         == parser_advance(b.p)
                 else_body == ast_create_block(e, b.stmts)
                 else_blk  == ast_create_else(e, else_body)
             IN  IF else_body = Null \/ else_blk = Null
                 THEN Ret(fn, e, Null)
                 ELSE Ret(fn, e, ast_create_if(e, condition, then_block, else_blk))

\* The part of parse_if_statement after the then-block: the optional else.
ParseElse(p, condition, then_block) ==
    LET fn       == "parse_if_statement"
        next_tok == parser_peek(p)
    IN  IF IsKeyword(next_tok, KW_else)
        THEN LET q == parser_advance(p)
             IN  IF IsKeyword(parser_peek(q), KW_if)
                 THEN ElseIfAfter(parse_if_statement(q), condition, then_block)
                 ELSE IF parser_peek(q).type = "TOKEN_LBRACE"
                 THEN ElseAfterBody(StmtLoop(parser_advance(q), <<>>), condition,
                                    then_block)
                 ELSE Ret(fn, parser_error(q, "Expected 'if' or '{' after 'else'"), Null)
        ELSE Ret(fn, p, ast_create_if(p, condition, then_block, Null))

\* parse_if_statement after the statement loop of the then body.
IfAfterBody(b, condition) ==
    LET fn == "parse_if_statement"
    IN  IF b.failed THEN Ret(fn, b.p, Null)
        ELSE IF parser_peek(b.p).type # "TOKEN_RBRACE"
        THEN Ret(fn, parser_error(b.p, "Expected '}' to close if body"), Null)
        ELSE LET e          == parser_advance(b.p)
                 then_block == ast_create_block(e, b.stmts)
             IN  IF then_block = Null THEN Ret(fn, e, Null)
                 ELSE ParseElse(e, condition, then_block)

\* parse_if_statement after the condition, c being what parse_expression
\* returned.
IfAfterCondition(c) ==
    LET fn == "parse_if_statement"
    IN  IF c.p.error \/ c.node = Null
        THEN Ret(fn, parser_error(c.p, "Expected condition expression in 'if'"), Null)
        ELSE IF parser_peek(c.p).type # "TOKEN_RPAREN"
        THEN Ret(fn, parser_error(c.p, "Expected ')' after condition"), Null)
        ELSE LET r == parser_advance(c.p)
             IN  IF parser_peek(r).type # "TOKEN_LBRACE"
                 THEN Ret(fn, parser_error(r, "Expected '{' for if body"), Null)
                 ELSE IfAfterBody(StmtLoop(parser_advance(r), <<>>), c.node)

parse_if_statement(p0) ==
    LET fn  == "parse_if_statement"
        p   == Enter(p0, fn)
        tok == parser_peek(p)
    IN  IF p0.error THEN Ret(fn, p, Null)
        ELSE IF ~IsKeyword(tok, KW_if)
        THEN Ret(fn, parser_error(p, "Expected 'if' keyword"), Null)
        ELSE
        LET q == parser_advance(p)
        IN  IF parser_peek(q).type # "TOKEN_LPAREN"
            THEN Ret(fn, parser_error(q, "Expected '(' after 'if'"), Null)
            ELSE IfAfterCondition(parse_expression(parser_advance(q), 0))

\* parser->tokens[i], read without parser_peek by the import look-ahead.
TokenAt(p, i) ==
    IF i >= 0 /\ i < Len(p.tokens) THEN p.tokens[i + 1]
    ELSE [token_zero EXCEPT !.type = "OUT_OF_BOUNDS"]

\* The look-ahead of the import case: the number of identifiers of the
\* dotted module name that starts at temp_pos.
RECURSIVE ImportCount(_, _)
ImportCount(p, temp_pos) ==
    IF /\ TokenAt(p, temp_pos + 1).type = "TOKEN_DOT"
       /\ TokenAt(p, temp_pos + 2).type = "TOKEN_IDENT"
    THEN 1 + ImportCount(p, temp_pos + 2)
    ELSE 1

\* A variant of the look-ahead that reads both tokens of the condition
\* whatever the first one is.
RECURSIVE ImportReach_Eager(_, _)
ImportReach_Eager(p, temp_pos) ==
    IF /\ TokenAt(p, temp_pos + 1).type = "TOKEN_DOT"
       /\ TokenAt(p, temp_pos + 2).type = "TOKEN_IDENT"
    THEN ImportReach_Eager(p, temp_pos + 2)
    ELSE temp_pos + 2

\* The largest index of parser->tokens the look-ahead reads: `&&` reads
\* tokens[temp_pos + 2] only when tokens[temp_pos + 1] is a dot.
RECURSIVE ImportReach(_, _)
ImportReach(p, temp_pos) ==
    IF TokenAt(p, temp_pos + 1).type # "TOKEN_DOT" THEN temp_pos + 1
    ELSE IF TokenAt(p, temp_pos + 2).type # "TOKEN_IDENT" THEN temp_pos + 2
    ELSE ImportReach(p, temp_pos + 2)

\* The log entry of the look-ahead: pos is the largest index it reads.
LookAhead(p) ==
    [p EXCEPT !.log = Append(@, [ev |-> "lookahead", fn |-> "parse_statement",
                                 pos |-> ImportReach(p, p.pos),
                                 error |-> p.error, null |-> FALSE])]

\* The `for (i = 0; i < ident_count; i++)` loop of the import case.
RECURSIVE ImportLoop(_, _, _, _)
ImportLoop(p, i, ident_count, module) ==
    IF i < ident_count
    THEN LET current_ident == parser_peek(p)
         IN  IF current_ident.type # "TOKEN_IDENT"
             THEN [p |-> parser_error(p, "Expected identifier in module name"),
                   module |-> <<>>, failed |-> TRUE]
             ELSE LET q == parser_advance(p)
                      m == module \o current_ident.lexeme
                  IN  IF i < ident_count - 1
                      THEN IF parser_peek(q).type # "TOKEN_DOT"
                           THEN [p |-> parser_error(q, "Expected '.' in module name"),
                                 module |-> <<>>, failed |-> TRUE]
                           ELSE ImportLoop(parser_advance(q), i + 1, ident_count,
                                           Append(m, Ch(".")))
                      ELSE ImportLoop(q, i + 1, ident_count, m)
    ELSE [p |-> p, module |-> module, failed |-> FALSE]

\* The tail shared by a definition and a reassignment in parse_statement
\* after the expression, v being what parse_expression returned.
AssignAfterValue(v, name, type_name, no_expr, no_semi) ==
    LET fn == "parse_statement"
    IN  IF v.p.error \/ v.node = Null
        THEN Ret(fn, parser_error(v.p, no_expr), Null)
        ELSE IF parser_peek(v.p).type # "TOKEN_SEMI"
        THEN Ret(fn, parser_error(v.p, no_semi), Null)
        ELSE LET e == parser_advance(v.p)
             IN  Ret(fn, e, ast_create_assign(e, name, type_name, v.node))

\* The tail shared by a definition and a reassignment in parse_statement:
\* after '=' comes an expression and ';'.
ParseAssignTail(p, name, type_name, no_expr, no_semi) ==
    AssignAfterValue(parse_expression(parser_advance(p), 0), name, type_name,
                     no_expr, no_semi)

\* The block case of parse_statement after its statement loop.
BlockAfterBody(b) ==
    LET fn == "parse_statement"
    IN  IF b.failed THEN Ret(fn, b.p, Null)
        ELSE IF parser_peek(b.p).type # "TOKEN_RBRACE"
        THEN Ret(fn, parser_error(b.p, "Expected '}' to close block"), Null)
        ELSE LET e == parser_advance(b.p)
             IN  Ret(fn, e, ast_create_block(e, b.stmts))

\* The return case after the expression.
ReturnAfterExpr(r) ==
    LET fn == "parse_statement"
    IN  IF r.p.error THEN Ret(fn, r.p, Null)
        ELSE IF parser_peek(r.p).type # "TOKEN_SEMI"
        THEN Ret(fn, parser_error(r.p, "Expected ';' after return statement"), Null)
        ELSE LET e == parser_advance(r.p)
             IN  Ret(fn, e, ast_create_return(e, r.node))

\* The import case after the module name.
ImportAfterName(m) ==
    LET fn == "parse_statement"
    IN  IF m.failed THEN Ret(fn, m.p, Null)
        ELSE IF parser_peek(m.p).type # "TOKEN_SEMI"
        THEN Ret(fn, parser_error(m.p, "Expected ';' after import statement"), Null)
        ELSE LET e == parser_advance(m.p)
             IN  Ret(fn, e, ast_create_import(e, m.module))

\* `return parse_func_def(parser);`
ReturnFuncDef(f) == Ret("parse_statement", f.p, f.node)

\* The call case after parse_func_call.
CallAfter(c) ==
    LET fn == "parse_statement"
    IN  IF c.p.error THEN Ret(fn, c.p, Null)
        ELSE IF parser_peek(c.p).type # "TOKEN_SEMI"
        THEN Ret(fn, parser_error(c.p, "Expected ';' after function call"), Null)
        ELSE Ret(fn, parser_advance(c.p), c.node)

parse_statement(p0) ==
    LET fn  == "parse_statement"
        p   == Enter(p0, fn)
        tok == parser_peek(p)
    IN  IF p0.error THEN Ret(fn, p, Null)
        ELSE IF tok.type = "TOKEN_LBRACE"
        THEN BlockAfterBody(StmtLoop(parser_advance(p), <<>>))
        ELSE IF IsKeyword(tok, KW_return)
        THEN ReturnAfterExpr(parse_expression(parser_advance(p), 0))
        ELSE IF IsKeyword(tok, KW_import)
        THEN LET q == parser_advance(p)
             IN  IF parser_peek(q).type # "TOKEN_IDENT"
                 THEN Ret(fn, parser_error(q,
                              "Expected module name after import statement"), Null)
                 ELSE ImportAfterName(ImportLoop(LookAhead(q), 0, ImportCount(q, q.pos), <<>>))
        ELSE IF tok.type = "TOKEN_KEYWORD"
        THEN LET q        == parser_advance(p)
                 name_tok == parser_peek(q)
             IN  IF name_tok.type # "TOKEN_IDENT"
                 THEN Ret(fn, parser_error(q, "Expected identifier after type"), Null)
                 ELSE LET r == parser_advance(q)
                      IN  IF parser_peek(r).type = "TOKEN_LPAREN"
                          THEN ReturnFuncDef(parse_func_def(Rewind(r, 2)))
                          ELSE IF parser_peek(r).type = "TOKEN_ASSIGN"
                          THEN ParseAssignTail(r, name_tok.lexeme, tok.lexeme,
                                   "Expected expression after '=' in definition",
                                   "Expected ';' after definition")
                          ELSE Ret(fn, parser_error(r,
                                       "Expected '=' or '(' after identifier"), Null)
        ELSE IF tok.type = "TOKEN_IDENT"
        THEN LET q == parser_advance(p)
             IN  IF parser_peek(q).type = "TOKEN_LPAREN"
                 THEN CallAfter(parse_func_call(Rewind(q, 1)))
                 ELSE IF parser_peek(q).type = "TOKEN_ASSIGN"
                 THEN ParseAssignTail(q, tok.lexeme, NoStr,
                                      "Expected expression after '=' in assignment",
                                      "Expected ';' after assignment")
                 ELSE Ret(fn, parser_error(q, "Expected '=' or '(' after identifier"),
                          Null)
        ELSE Ret(fn, parser_error(p, "Unknown statement"), Null)

\* A variant of TopLevelAllowed that lets every statement through.
TopLevelAllowed_Any(stmt) == TRUE

\* ast_gen keeps a top-level statement unless
\* `stmt->type != NODE_FUNC_DEF && stmt->type != NODE_IMPORT`.
TopLevelAllowed(stmt) == stmt.type = "NODE_FUNC_DEF" \/ stmt.type = "NODE_IMPORT"

\* The `while (parser_peek(&parser).type != TOKEN_EOF)` loop of ast_gen;
\* failed: ast_gen returned NULL from inside the loop.  TopLoopBody is the
\* body of the loop after the call, r being what parse_statement returned.
RECURSIVE TopLoop(_, _)
TopLoopBody(r, func_defs) ==
    IF r.p.error THEN [p |-> r.p, func_defs |-> <<>>, failed |-> TRUE]
    ELSE IF r.node = Null
    THEN [p |-> r.p, func_defs |-> func_defs, failed |-> FALSE]
    ELSE IF ~TopLevelAllowed(r.node)
    THEN [p |-> parser_error(r.p,
            "Only function definitions and imports are allowed at top level"),
          func_defs |-> <<>>, failed |-> TRUE]
    ELSE TopLoop(r.p, Append(func_defs, r.node))

TopLoop(p, func_defs) ==
    IF parser_peek(p).type # "TOKEN_EOF"
    THEN TopLoopBody(parse_statement(p), func_defs)
    ELSE [p |-> p, func_defs |-> func_defs, failed |-> FALSE]

\* ast_gen after the loop.
AstGenAfterLoop(l) ==
    LET fn == "ast_gen"
    IN  IF l.failed THEN Ret(fn, l.p, Null)
        ELSE IF parser_peek(l.p).type # "TOKEN_EOF"
        THEN Ret(fn, parser_error(l.p, "Unexpected token after function definition"),
                 Null)
        ELSE Ret(fn, l.p, ast_create_program(l.p, l.func_defs))

\* ast_gen: `error` is reset on entry.
ast_gen(toks) == AstGenAfterLoop(TopLoop(Enter(ParserInit(toks), "ast_gen"), <<>>))

-----------------------------------------------------------------------------
(* codegen.c: the emitter.  c is the static codegen_context_t ctx:           *)
(*   out            the instructions written to ctx.out so far, one record   *)
(*                  for each line of IR (a header, a call and a data entry   *)
(*                  are written by several emit calls and are one record),   *)
(*   current_scope  the scope stack, innermost first; a scope is its         *)
(*                  entries, newest first,                                   *)
(*   funcs, strings the function table and the string pool, newest first,    *)
(*   temp_count, label_count, str_count  the counters,                       *)
(*   diags          the diagnostics the call in progress reported (level,    *)
(*                  message),                                                *)
(*   names          the names new_temp and new_label returned in the call in *)
(*                  progress, in order; the program keeps no such list.      *)
(* A gen_result_t is [val, qbe_type], val = NoStr for NULL, qbe_type a byte. *)

CtxInit ==
    [out |-> <<>>, current_scope |-> <<>>, funcs |-> <<>>, strings |-> <<>>,
     temp_count |-> 0, label_count |-> 0, str_count |-> 0, diags |-> <<>>,
     names |-> <<>>]

NoResult == [val |-> NoStr, qbe_type |-> 0]

emit(c, line) == [c EXCEPT !.out = Append(@, line)]

\* ERROR_FATAL(NULL, 0, 0, msg) and ERROR_WARN(NULL, 0, 0, msg)
GenFatal(c, msg) == [c EXCEPT !.diags = Append(@, [level |-> "ERROR_FATAL", msg |-> msg])]
GenWarn(c, msg)  == [c EXCEPT !.diags = Append(@, [level |-> "ERROR_WARNING", msg |-> msg])]

new_temp(c) ==
    The({[c    |-> [c EXCEPT !.temp_count = @ + 1, !.names = Append(@, name)],
          name |-> name]
         : name \in {B(<<"%","t">>) \o Dec(c.temp_count)}})

new_label(c) ==
    The({[c    |-> [c EXCEPT !.label_count = @ + 1, !.names = Append(@, name)],
          name |-> name]
         : name \in {B(<<"@","l">>) \o Dec(c.label_count)}})

\* The first of the entries of a list walk that match: hits is the set of
\* their indexes, the result is 0 if there is none.
FirstIndex(hits) ==
    IF hits = {} THEN 0 ELSE CHOOSE i \in hits : \A j \in hits : i <= j

type_map ==
    << <<B(<<"i","n","t">>), Ch("w")>>,
       <<B(<<"f","l","o","a","t">>), Ch("d")>>,
       <<B(<<"s","t","r","i","n","g">>), Ch("l")>> >>

\* str_to_qbe_type: the IR type and the context after a possible diagnostic.
str_to_qbe_type(c, s) ==
    The({
    IF s = NoStr THEN [c |-> c, t |-> Ch("w")]
    ELSE IF \E i \in 1..Len(map) : map[i][1] = s
    THEN [c |-> c, t |-> map[FirstIndex({i \in 1..Len(map) : map[i][1] = s})][2]]
    ELSE [c |-> GenFatal(c, "Unknown type"), t |-> Ch("w")]
    : map \in {type_map}})

push_scope(c) == [c EXCEPT !.current_scope = <<<<>>>> \o @]

pop_scope(c) == [c EXCEPT !.current_scope = Tail(@)]

add_sym(c, name, ptr, vtype) ==
    [c EXCEPT !.current_scope[1] =
                  <<[name |-> name, ptr |-> ptr, vtype |-> vtype]>> \o @]

\* A find_sym that walks the scopes from the outermost one: s is the largest
\* index of a scope that has the name, 0 if there is none.
find_sym_OuterFirst(c, name) ==
    The({
    IF s = 0
    THEN [c |-> GenFatal(c, "Undefined variable"), ptr |-> NoStr, vtype |-> 0]
    ELSE The({[c |-> c, ptr |-> e.ptr, vtype |-> e.vtype] :
              e \in {c.current_scope[s][
                         FirstIndex({k \in 1..Len(c.current_scope[s]) :
                                        c.current_scope[s][k].name = name})]}})
    : s \in {Len(c.current_scope) + 1
             - FirstIndex({Len(c.current_scope) + 1 - k : k \in
                              {j \in 1..Len(c.current_scope) :
                                  \E i \in 1..Len(c.current_scope[j]) :
                                      c.current_scope[j][i].name = name}}
                          \cup {Len(c.current_scope) + 1})}})

\* find_sym: scopes inner to outer, entries newest first.
find_sym(c, name) ==
    The({
    IF s = 0
    THEN [c |-> GenFatal(c, "Undefined variable"), ptr |-> NoStr, vtype |-> 0]
    ELSE The({[c |-> c, ptr |-> e.ptr, vtype |-> e.vtype] :
              e \in {c.current_scope[s][
                         FirstIndex({k \in 1..Len(c.current_scope[s]) :
                                        c.current_scope[s][k].name = name})]}})
    : s \in {FirstIndex({k \in 1..Len(c.current_scope) :
                            \E i \in 1..Len(c.current_scope[k]) :
                                c.current_scope[k][i].name = name})}})

find_func(c, name) ==
    The({
    IF i = 0
    THEN [c |-> GenWarn(c, "Function not found"), node |-> Null]
    ELSE [c |-> c, node |-> c.funcs[i].node]
    : i \in {FirstIndex({k \in 1..Len(c.funcs) : c.funcs[k].name = name})}})

\* A free_strings that walks the pool without unlinking its entries.
free_strings_Keep(c) == c

free_strings(c) == [c EXCEPT !.strings = <<>>]

\* The NODE_STRING case of collect_strings.
CollectString(c, node) ==
    IF FirstIndex({k \in 1..Len(c.strings) :
                      /\ c.strings[k].len = node.len
                      /\ c.strings[k].value = node.value}) # 0
    THEN c
    ELSE [c EXCEPT !.str_count = @ + 1,
                   !.strings = <<[value |-> node.value, len |-> node.len,
                                  gname |-> B(<<"$","s","t","r">>)
                                                \o Dec(c.str_count)]>> \o @]

RECURSIVE collect_strings(_, _), CollectEach(_, _)
\* for (i = 0; i < count; i++) collect_strings(&nodes[i]);
CollectEach(c, nodes) ==
    IF nodes = <<>> THEN c
    ELSE CollectEach(collect_strings(c, Head(nodes)), Tail(nodes))

collect_strings(c, node) ==
    CASE node = Null -> c
      [] node.type = "NODE_PROGRAM" -> CollectEach(c, node.func_defs)
      [] node.type = "NODE_FUNC_DEF" ->
            IF ~node.is_declaration THEN collect_strings(c, node.root) ELSE c
      [] node.type = "NODE_BLOCK" -> CollectEach(c, node.stmts)
      [] node.type = "NODE_RETURN" -> collect_strings(c, node.expr)
      [] node.type = "NODE_FUNC_CALL" -> CollectEach(c, node.args)
      [] node.type = "NODE_ASSIGN" -> collect_strings(c, node.value)
      [] node.type \in {"NODE_IF", "NODE_ELSEIF"} ->
            CollectEach(c, <<node.condition, node.then_block, node.else_block>>)
      [] node.type = "NODE_ELSE" -> collect_strings(c, node.block)
      [] node.type = "NODE_STRING" -> CollectString(c, node)
      [] OTHER -> c

\* sprintf("%ld") of a literal, which is never negative; "d_%g" of a float
\* literal is kept as d_ and the digits of the literal.
gen_number(c, node) ==
    IF node.lit_type = "TOKEN_NLIT"
    THEN [c |-> c, res |-> [val |-> Dec(node.i64), qbe_type |-> Ch("l")]]
    ELSE [c |-> c, res |-> [val |-> B(<<"d","_">>) \o node.f64, qbe_type |-> Ch("d")]]

gen_string(c, node) ==
    The({
    IF i # 0
    THEN [c |-> c, res |-> [val |-> c.strings[i].gname, qbe_type |-> Ch("l")]]
    ELSE [c |-> GenFatal(c, "String not collected"), res |-> NoResult]
    : i \in {FirstIndex({k \in 1..Len(c.strings) :
                            /\ c.strings[k].len = node.len
                            /\ c.strings[k].value = node.value})}})

gen_ident(c, node) ==
    The({
    IF vi.ptr = NoStr THEN [c |-> vi.c, res |-> NoResult]
    ELSE [c |-> vi.c, res |-> [val |-> vi.ptr, qbe_type |-> vi.vtype]]
    : vi \in {find_sym(c, node.name)}})

\* The ops table of gen_binop: token, mnemonic, is_comp.
binop_ops ==
    << <<"TOKEN_PLUS", "add", FALSE>>,  <<"TOKEN_MINUS", "sub", FALSE>>,
       <<"TOKEN_STAR", "mul", FALSE>>,  <<"TOKEN_SLASH", "div", FALSE>>,
       <<"TOKEN_PERCENT", "rem", FALSE>>, <<"TOKEN_EQ", "ceq", TRUE>>,
       <<"TOKEN_NEQ", "cne", TRUE>>,    <<"TOKEN_LT", "slt", TRUE>>,
       <<"TOKEN_LTE", "sle", TRUE>>,    <<"TOKEN_GT", "sgt", TRUE>>,
       <<"TOKEN_GTE", "sge", TRUE>> >>

gen_binop(c, op, left, right) ==
    IF left.val = NoStr \/ right.val = NoStr THEN [c |-> c, res |-> NoResult]
    ELSE The({
         IF i = 0
         THEN [c |-> GenFatal(c, "Unimplemented binary operator"), res |-> NoResult]
         ELSE LET otype == left.qbe_type
              IN  The({
                  IF ops[i][3]
                  THEN [c   |-> emit(t.c, [op |-> "binop", dst |-> t.name,
                                           type |-> Ch("w"),
                                           ins |-> <<ops[i][2], otype>>,
                                           left |-> left.val, right |-> right.val]),
                        res |-> [val |-> t.name, qbe_type |-> Ch("w")]]
                  ELSE [c   |-> emit(t.c, [op |-> "binop", dst |-> t.name,
                                           type |-> otype,
                                           ins |-> <<ops[i][2], 0>>,
                                           left |-> left.val, right |-> right.val]),
                        res |-> [val |-> t.name, qbe_type |-> otype]]
                  : t \in {new_temp(c)}, ops \in {binop_ops}})
         : i \in {FirstIndex({k \in 1..Len(binop_ops) : binop_ops[k][1] = op})}})

RECURSIVE gen_expr(_, _), gen_func_call(_, _), gen_assign(_, _), GenArgs(_, _, _)

gen_binop_node(c, node) ==
    The({The({gen_binop(r.c, node.op, l.res, r.res) :
              r \in {gen_expr(l.c, node.right)}}) :
         l \in {gen_expr(c, node.left)}})

\* The first loop over the arguments of gen_func_call: it stops at the first
\* argument without a value.
GenArgs(c, args, acc) ==
    IF args = <<>> THEN [c |-> c, args |-> acc, failed |-> FALSE]
    ELSE The({
         IF a.res.val = NoStr THEN [c |-> a.c, args |-> acc, failed |-> TRUE]
         ELSE GenArgs(a.c, Tail(args), Append(acc, a.res))
         : a \in {gen_expr(c, Head(args))}})

RECURSIVE ArgTypes(_, _, _, _, _)
\* The second loop over the arguments: the type each one is passed as.
\* typed is `param && i < param_count && !is_variadic` for argument i.
ArgTypes(c, func, args, i, acc) ==
    IF i > Len(args) THEN [c |-> c, args |-> acc]
    ELSE LET typed == func # Null /\ i <= Len(func.params)
                      /\ \A k \in 1..Len(func.params) : ~func.params[k].is_variadic
         IN  The({
             ArgTypes(pt.c, func, args, i + 1,
                      Append(acc, [ptype |-> pt.t, val |-> args[i].val]))
             : pt \in {IF typed THEN str_to_qbe_type(c, func.params[i].type_name)
                       ELSE [c |-> c,
                             t |-> IF args[i].qbe_type # 0 THEN args[i].qbe_type
                                   ELSE Ch("w")]}})

gen_func_call(c0, node) ==
    The({The({The({
        IF a.failed THEN [c |-> a.c, res |-> NoResult]
        ELSE The({The({
             [c   |-> emit(pt.c, [op |-> "call", dst |-> tmp.name, type |-> rt.t,
                                  name |-> node.name, args |-> pt.args]),
              res |-> [val |-> tmp.name, qbe_type |-> rt.t]]
             : pt \in {ArgTypes(tmp.c, f.node, a.args, 1, <<>>)}})
             : tmp \in {new_temp(a.c)}})
        : a \in {GenArgs(rt.c, node.args, <<>>)}})
        : rt \in {IF f.node # Null THEN str_to_qbe_type(f.c, f.node.return_type)
                  ELSE [c |-> f.c, t |-> Ch("l")]}})
        : f \in {find_func(c0, node.name)}})

gen_assign(c0, node) ==
    The({
    IF node.value # Null /\ val.res.val = NoStr THEN [c |-> val.c, res |-> NoResult]
    ELSE IF node.type_name # NoStr
    THEN The({The({
         LET size  == IF vt.t = Ch("w") \/ vt.t = Ch("s") THEN 4 ELSE 8
             c1    == emit(ptr.c, [op |-> "alloc", dst |-> ptr.name, size |-> size])
             c2    == add_sym(c1, node.name, ptr.name, vt.t)
         IN  The({
             [c   |-> emit(c2, [op |-> "store", type |-> vt.t, val |-> v,
                                ptr |-> ptr.name]),
              res |-> [val |-> v, qbe_type |-> vt.t]]
             : v \in {IF node.value # Null THEN val.res.val ELSE <<Ch("0")>>}})
         : ptr \in {new_temp(vt.c)}})
         : vt \in {str_to_qbe_type(val.c, node.type_name)}})
    ELSE The({
         IF vi.ptr = NoStr THEN [c |-> vi.c, res |-> NoResult]
         ELSE [c   |-> emit(vi.c, [op |-> "store", type |-> vi.vtype,
                                   val |-> val.res.val, ptr |-> vi.ptr]),
               res |-> [val |-> val.res.val, qbe_type |-> vi.vtype]]
         : vi \in {find_sym(val.c, node.name)}})
    : val \in {IF node.value # Null THEN gen_expr(c0, node.value)
               ELSE [c |-> c0, res |-> NoResult]}})

\* handlers[] of gen_expr has an entry for these six node types only.
gen_expr(c, node) ==
    CASE node = Null -> [c |-> c, res |-> NoResult]
      [] node.type = "NODE_NUMBER" -> gen_number(c, node)
      [] node.type = "NODE_STRING" -> gen_string(c, node)
      [] node.type = "NODE_IDENT" -> gen_ident(c, node)
      [] node.type = "NODE_BINOP" -> gen_binop_node(c, node)
      [] node.type = "NODE_FUNC_CALL" -> gen_func_call(c, node)
      [] node.type = "NODE_ASSIGN" -> gen_assign(c, node)
      [] OTHER -> [c |-> GenFatal(c, "Unimplemented expression type"), res |-> NoResult]

gen_func_call_stmt(c, node) == gen_func_call(c, node).c

gen_assign_stmt(c, node) == gen_assign(c, node).c

gen_return(c, node) ==
    IF node.expr # Null
    THEN The({
         IF val.res.val # NoStr
         THEN emit(val.c, [op |-> "ret", val |-> val.res.val])
         ELSE val.c
         : val \in {gen_expr(c, node.expr)}})
    ELSE emit(c, [op |-> "ret", val |-> NoStr])

RECURSIVE gen_conditional(_, _, _), gen_stmt(_, _), gen_block(_, _), GenStmts(_, _)

\* cont_lab = NoStr is the NULL of a call from gen_stmt.
gen_conditional(c0, node, cont_lab0) ==
    LET manage_cont == cont_lab0 = NoStr
        else_block  == node.else_block
    IN  The({The({
        IF cond.res.val = NoStr THEN cond.c
        ELSE The({The({
             LET cont_lab == nl.name
                 c1 == emit(next_lab.c, [op |-> "jnz", val |-> cond.res.val,
                                         then |-> then_lab.name, else |-> next_lab.name])
                 c2 == emit(c1, [op |-> "label", name |-> then_lab.name])
             IN  The({The({The({
                     IF manage_cont THEN emit(c6, [op |-> "label", name |-> cont_lab])
                     ELSE c6
                     : c6 \in {IF else_block = Null THEN c5
                               ELSE IF else_block.type = "NODE_ELSEIF"
                               THEN gen_conditional(c5, else_block, cont_lab)
                               ELSE IF else_block.type = "NODE_ELSE"
                               THEN emit(gen_block(c5, else_block.block),
                                         [op |-> "jmp", target |-> cont_lab])
                               ELSE c5}})
                     : c5 \in {emit(emit(c3, [op |-> "jmp", target |-> cont_lab]),
                                    [op |-> "label", name |-> next_lab.name])}})
                     : c3 \in {gen_block(c2, node.then_block)}})
             : next_lab \in {new_label(then_lab.c)}})
             : then_lab \in {new_label(cond.c)}})
        : cond \in {gen_expr(nl.c, node.condition)}})
        : nl \in {IF manage_cont THEN new_label(c0)
                  ELSE [c |-> c0, name |-> cont_lab0]}})

\* handlers[] of gen_stmt has an entry for four node types only.
gen_stmt(c, node) ==
    CASE node = Null -> c
      [] node.type = "NODE_IF" -> gen_conditional(c, node, NoStr)
      [] node.type = "NODE_IMPORT" -> c
      [] node.type = "NODE_RETURN" -> gen_return(c, node)
      [] node.type = "NODE_FUNC_CALL" -> gen_func_call_stmt(c, node)
      [] node.type = "NODE_ASSIGN" -> gen_assign_stmt(c, node)
      [] node.type = "NODE_BLOCK" -> gen_block(c, node)
      [] OTHER -> GenFatal(c, "Unimplemented statement type")

GenStmts(c, stmts) ==
    IF stmts = <<>> THEN c ELSE GenStmts(gen_stmt(c, Head(stmts)), Tail(stmts))

gen_block(c, node) ==
    IF node = Null \/ node.type # "NODE_BLOCK" THEN c
    ELSE pop_scope(GenStmts(push_scope(c), node.stmts))

RECURSIVE HeaderParams(_, _, _), BindParams(_, _)
\* The loop of gen_func_def that writes the parameters of the header.
HeaderParams(c, params, acc) ==
    IF params = <<>> THEN [c |-> c, params |-> acc]
    ELSE IF Head(params).is_variadic
    THEN HeaderParams(c, Tail(params), Append(acc, [variadic |-> TRUE]))
    ELSE The({
         HeaderParams(pt.c, Tail(params),
                      Append(acc, [variadic |-> FALSE, ptype |-> pt.t,
                                   name |-> <<Ch("%")>> \o Head(params).name]))
         : pt \in {str_to_qbe_type(c, Head(params).type_name)}})

\* The loop of gen_func_def that binds the parameters before the variadic one.
BindParams(c, params) ==
    IF params = <<>> \/ Head(params).is_variadic THEN c
    ELSE The({
         BindParams(add_sym(pt.c, Head(params).name,
                            <<Ch("%")>> \o Head(params).name, pt.t),
                    Tail(params))
         : pt \in {str_to_qbe_type(c, Head(params).type_name)}})

gen_func_def(c, node) ==
    IF node = Null \/ node.type # "NODE_FUNC_DEF" THEN c
    ELSE IF node.is_declaration THEN c
    ELSE The({The({
         LET c1 == emit(hp.c, [op |-> "function",
                               export |-> node.name = B(<<"m","a","i","n">>),
                               type |-> rt.t, name |-> node.name,
                               params |-> hp.params])
             c2 == emit(c1, [op |-> "label", name |-> B(<<"@","s","t","a","r","t">>)])
             c3 == BindParams(push_scope(c2), node.params)
             c4 == pop_scope(gen_block(c3, node.root))
         IN  emit(c4, [op |-> "end"])
         : hp \in {HeaderParams(rt.c, node.params, <<>>)}})
         : rt \in {str_to_qbe_type(c, node.return_type)}})

RECURSIVE GenFuncDefs(_, _)
GenFuncDefs(c, defs) ==
    IF defs = <<>> THEN c ELSE GenFuncDefs(gen_func_def(c, Head(defs)), Tail(defs))

gen_program(c, node) ==
    IF node = Null \/ node.type # "NODE_PROGRAM" THEN c
    ELSE GenFuncDefs(c, node.func_defs)

\* A free_context without the three assignments that end it.
free_context_KeepCounters(c) ==
    [free_strings(c) EXCEPT !.funcs = <<>>, !.current_scope = <<>>]

free_context(c) ==
    [free_strings(c) EXCEPT !.funcs = <<>>, !.current_scope = <<>>,
                            !.temp_count = 0, !.label_count = 0, !.str_count = 0]

RECURSIVE EmitData(_, _), RegisterFuncs(_, _, _)
\* for (si = ctx.strings; si; si = si->next) emit the data entry of si.
EmitData(c, strings) ==
    IF strings = <<>> THEN c
    ELSE EmitData(emit(c, [op |-> "data", gname |-> Head(strings).gname,
                           bytes |-> Head(strings).value \o <<0>>]),
                  Tail(strings))

\* The registration loop of codegen_generate reads data.func_def.name and
\* name_len of every top-level item.  For an Import item the name is the
\* module path, which shares the storage, and name_len was never written:
\* garbage_len stands for the value found there.
RegisterFuncs(c, items, garbage_len) ==
    IF items = <<>> THEN c
    ELSE LET it   == Head(items)
             name == IF it.type = "NODE_IMPORT"
                     THEN SubSeq(it.module, 1,
                                 IF garbage_len < Len(it.module) THEN garbage_len
                                 ELSE Len(it.module))
                     ELSE it.name
         IN  RegisterFuncs([c EXCEPT !.funcs = <<[name |-> name, node |-> it]>> \o @],
                           Tail(items), garbage_len)

\* codegen_generate(root, output_path).  The outcomes that the code does not
\* decide are parameters: fopen_ok (the .qbe file could be created),
\* qbe_result and cc_result (the wait statuses system() returns), partial (a
\* failing tool still left its output file), garbage_len (see RegisterFuncs).
\* ctx is static: c0 is what the previous call left, CtxInit at the first.
\* files is the set of files the call leaves on disk, pool the string pool
\* as collect_strings left it, registered the function table as the
\* registration loop left it.  fopen(.., "w") starts the IR file anew.
codegen_generate(c0, root, fopen_ok, qbe_result, cc_result, partial, garbage_len) ==
    IF root = Null \/ root.type # "NODE_PROGRAM"
    THEN [rc |-> 1, c |-> GenFatal(c0, "Root node must be a program"),
          files |-> {}, pool |-> <<>>, registered |-> <<>>]
    ELSE IF ~fopen_ok
    THEN [rc |-> 1, c |-> GenFatal(c0, "Failed to open QBE output file"),
          files |-> {}, pool |-> <<>>, registered |-> <<>>]
    ELSE The({The({The({
             IF qbe_result # 0
             THEN [rc |-> 1,
                   c |-> free_context(GenFatal(c4, "QBE failed to generate assembly")),
                   files |-> {"qbe"} \cup (IF partial THEN {"asm"} ELSE {}),
                   pool |-> c1.strings, registered |-> c3.funcs]
             ELSE IF cc_result # 0
             THEN [rc |-> 1,
                   c |-> free_context(GenFatal(c4, "Clang failed to link executable")),
                   files |-> IF partial THEN {"out"} ELSE {},
                   pool |-> c1.strings, registered |-> c3.funcs]
             ELSE [rc |-> 0, c |-> free_context(c4), files |-> {"qbe", "asm", "out"},
                   pool |-> c1.strings, registered |-> c3.funcs]
             : c4 \in {gen_program(c3, root)}})
         : c3 \in {RegisterFuncs(EmitData(c1, c1.strings), root.func_defs,
                                  garbage_len)}})
         : c1 \in {collect_strings([c0 EXCEPT !.out = <<>>], root)}})

-----------------------------------------------------------------------------
(* Inputs.  The parser decides on the type of a token and on its lexeme, so  *)
(* a token vector is built from tokens that carry these; positions are zero. *)
(* TOKEN_ELLIPSIS is the type parse_param_list compares with.                *)

Tok(type, text) ==
    [token_zero EXCEPT !.type = type, !.len = Len(text), !.lexeme = text,
                       !.i64 = IF type = "TOKEN_NLIT" THEN StrToLL(text) ELSE 0]

t_int == Tok("TOKEN_KEYWORD", B(<<"i","n","t">>))
t_float == Tok("TOKEN_KEYWORD", B(<<"f","l","o","a","t">>))
t_if == Tok("TOKEN_KEYWORD", B(<<"i","f">>))
t_else == Tok("TOKEN_KEYWORD", B(<<"e","l","s","e">>))
t_return == Tok("TOKEN_KEYWORD", B(<<"r","e","t","u","r","n">>))
t_import == Tok("TOKEN_KEYWORD", B(<<"i","m","p","o","r","t">>))
t_a == Tok("TOKEN_IDENT", B(<<"a">>))
t_b == Tok("TOKEN_IDENT", B(<<"b">>))
t_c == Tok("TOKEN_IDENT", B(<<"c">>))
t_d == Tok("TOKEN_IDENT", B(<<"d">>))
t_f == Tok("TOKEN_IDENT", B(<<"f">>))
t_g == Tok("TOKEN_IDENT", B(<<"g">>))
t_x == Tok("TOKEN_IDENT", B(<<"x">>))
t_y == Tok("TOKEN_IDENT", B(<<"y">>))
t_t0 == Tok("TOKEN_IDENT", B(<<"t","0">>))
t_main == Tok("TOKEN_IDENT", B(<<"m","a","i","n">>))
t_0 == Tok("TOKEN_NLIT", B(<<"0">>))
t_1 == Tok("TOKEN_NLIT", B(<<"1">>))
t_2 == Tok("TOKEN_NLIT", B(<<"2">>))
t_3 == Tok("TOKEN_NLIT", B(<<"3">>))
t_lparen == Tok("TOKEN_LPAREN", B(<<"(">>))
t_rparen == Tok("TOKEN_RPAREN", B(<<")">>))
t_lbrace == Tok("TOKEN_LBRACE", B(<<"{">>))
t_rbrace == Tok("TOKEN_RBRACE", B(<<"}">>))
t_semi == Tok("TOKEN_SEMI", B(<<";">>))
t_comma == Tok("TOKEN_COMMA", B(<<",">>))
t_dot == Tok("TOKEN_DOT", B(<<".">>))
t_assign == Tok("TOKEN_ASSIGN", B(<<"=">>))
t_plus == Tok("TOKEN_PLUS", B(<<"+">>))
t_minus == Tok("TOKEN_MINUS", B(<<"-">>))
t_star == Tok("TOKEN_STAR", B(<<"*">>))
t_slash == Tok("TOKEN_SLASH", B(<<"/">>))
t_percent == Tok("TOKEN_PERCENT", B(<<"%">>))
t_eq == Tok("TOKEN_EQ", B(<<"=","=">>))
t_neq == Tok("TOKEN_NEQ", B(<<"!","=">>))
t_lt == Tok("TOKEN_LT", B(<<"<">>))
t_gt == Tok("TOKEN_GT", B(<<">">>))
t_lte == Tok("TOKEN_LTE", B(<<"<","=">>))
t_gte == Tok("TOKEN_GTE", B(<<">","=">>))
t_ellipsis == Tok("TOKEN_ELLIPSIS", B(<<".",".",".">>))
t_eof == Tok("TOKEN_EOF", <<>>)

RECURSIVE Flat(_)
\* The concatenation of a sequence of token sequences.
Flat(ss) == IF ss = <<>> THEN <<>> ELSE Head(ss) \o Flat(Tail(ss))

SeqsUpTo(S, n) == UNION {[1..k -> S] : k \in 0..n}

MaxParamTokens == 4
MaxTopItems    == 2
MaxBodyStmts   == 2
MaxOperators   == 3

\* `int f ( <params> ) ;` for every token sequence <params> over ParamAlphabet.
ParamAlphabet == {t_int, t_a, t_comma, t_ellipsis, t_semi}
Declaration(params) == <<t_int, t_f, t_lparen>> \o params \o <<t_rparen, t_semi, t_eof>>
ParamPrograms == {Declaration(ps) : ps \in SeqsUpTo(ParamAlphabet, MaxParamTokens)}

TopDeclaration == <<t_int, t_f, t_lparen, t_int, t_a, t_comma, t_ellipsis, t_rparen, t_semi>>
TopFunction == <<t_int, t_main, t_lparen, t_rparen, t_lbrace, t_return, t_0, t_semi, t_rbrace>>
TopImport == <<t_import, t_a, t_dot, t_b, t_semi>>
TopDefinition == <<t_int, t_x, t_assign, t_1, t_semi>>
TopReassign == <<t_x, t_assign, t_1, t_semi>>
TopCall == <<t_f, t_lparen, t_1, t_rparen, t_semi>>
TopReturn == <<t_return, t_1, t_semi>>
TopBlock == <<t_lbrace, t_return, t_1, t_semi, t_rbrace>>

TopFuncOrImport == {TopDeclaration, TopFunction, TopImport}
TopOther        == {TopDefinition, TopReassign, TopCall, TopReturn, TopBlock}
TopItems        == TopFuncOrImport \cup TopOther
TopProgram(items) == Flat(items) \o <<t_eof>>
TopPrograms == {TopProgram(items) : items \in SeqsUpTo(TopItems, MaxTopItems)}

BodyReturn == <<t_return, t_1, t_semi>>
BodyDefinition == <<t_int, t_x, t_assign, t_1, t_semi>>
BodyReassign == <<t_x, t_assign, t_2, t_semi>>
BodyCall == <<t_f, t_lparen, t_1, t_comma, t_x, t_rparen, t_semi>>
BodyBlock == <<t_lbrace, t_return, t_x, t_semi, t_rbrace>>
BodyIfChain == <<t_if, t_lparen, t_x, t_rparen, t_lbrace, t_return, t_1, t_semi, t_rbrace, t_else, t_if, t_lparen, t_y, t_rparen, t_lbrace, t_return, t_2, t_semi, t_rbrace, t_else, t_lbrace, t_return, t_3, t_semi, t_rbrace>>
BodyIf == <<t_if, t_lparen, t_x, t_rparen, t_lbrace, t_return, t_1, t_semi, t_rbrace>>
BodyIfElse == <<t_if, t_lparen, t_x, t_rparen, t_lbrace, t_return, t_1, t_semi, t_rbrace, t_else, t_lbrace, t_return, t_2, t_semi, t_rbrace>>
BodyFuncDef == <<t_int, t_g, t_lparen, t_int, t_a, t_rparen, t_lbrace, t_return, t_a, t_semi, t_rbrace>>
BodyImport == <<t_import, t_a, t_dot, t_b, t_semi>>
BodyEmpty == <<t_semi>>

BodyIfItems == {BodyIfChain, BodyIf, BodyIfElse}
BodyItems == {BodyReturn, BodyDefinition, BodyReassign, BodyCall, BodyBlock,
              BodyFuncDef, BodyImport, BodyEmpty} \cup BodyIfItems
BodyProgram(stmts) ==
    <<t_int, t_main, t_lparen, t_rparen, t_lbrace>> \o Flat(stmts)
        \o <<t_rbrace, t_eof>>
BodyPrograms == {BodyProgram(stmts) : stmts \in SeqsUpTo(BodyItems, MaxBodyStmts)}
IfPrograms == {BodyProgram(<<it>>) : it \in BodyIfItems}

\* A program cut after each of its tokens.
BaseProgram == <<t_import, t_a, t_dot, t_b, t_semi, t_int, t_f, t_lparen, t_int, t_a, t_comma, t_ellipsis, t_rparen, t_semi, t_int, t_main, t_lparen, t_rparen, t_lbrace, t_int, t_x, t_assign, t_1, t_plus, t_2, t_star, t_3, t_semi, t_f, t_lparen, t_x, t_comma, t_2, t_rparen, t_semi, t_lbrace, t_x, t_assign, t_x, t_minus, t_1, t_semi, t_rbrace, t_return, t_x, t_semi, t_rbrace>>
CutPrograms == {SubSeq(BaseProgram, 1, n) \o <<t_eof>> : n \in 0..Len(BaseProgram)}

ParserInputs == ParamPrograms \cup TopPrograms \cup BodyPrograms \cup CutPrograms

\* `a op b op c ... ;` for every sequence of the binary operators of the
\* three levels of get_precedence.
ExprOperators == {t_star, t_slash, t_percent, t_plus, t_minus, t_eq, t_neq, t_lt,
                  t_gt, t_lte, t_gte}
ExprAtoms == <<t_a, t_1, t_b, t_2, t_c, t_3, t_d>>
ExprTokens(ops) ==
    <<ExprAtoms[1]>> \o Flat([i \in 1..Len(ops) |-> <<ops[i], ExprAtoms[i + 1]>>])
        \o <<t_semi, t_eof>>
ExprInputs == {ExprTokens(ops) : ops \in SeqsUpTo(ExprOperators, MaxOperators)}

ParsedNone == [p |-> ParserInit(<<>>), node |-> Null]
GenNone    ==
    [rc |-> -1, c |-> CtxInit, files |-> {}, pool |-> <<>>, registered |-> <<>>,
     fopen_ok |-> FALSE,
     qbe_result |-> 0, cc_result |-> 0, entry |-> CtxInit, calls |-> 0,
     prev |-> [rc |-> -1, fopen_ok |-> FALSE, out |-> <<>>]]

-----------------------------------------------------------------------------
(* SpecParser: ast_gen applied to a token vector.                            *)

InitParser ==
    /\ pc = "ast_gen"
    /\ parse_in \in ParserInputs
    /\ parsed = ParsedNone
    /\ source = <<>> /\ lex = LexerInit /\ tokens = <<>> /\ exit_status = -1
    /\ gen_in = Null /\ gen = GenNone

AstGen ==
    /\ pc = "ast_gen"
    /\ parsed' = ast_gen(parse_in)
    /\ pc' = "ast_gen_done"
    /\ UNCHANGED <<source, lex, tokens, exit_status, parse_in, gen_in, gen>>

NextParser == AstGen

SpecParser == InitParser /\ [][NextParser]_vars

(* SpecExpr: parse_expression(parser, 0) applied at the start of an          *)
(* expression.                                                               *)

InitExpr ==
    /\ pc = "parse_expression"
    /\ parse_in \in ExprInputs
    /\ parsed = ParsedNone
    /\ source = <<>> /\ lex = LexerInit /\ tokens = <<>> /\ exit_status = -1
    /\ gen_in = Null /\ gen = GenNone

ParseExpression ==
    /\ pc = "parse_expression"
    /\ parsed' = parse_expression(ParserInit(parse_in), 0)
    /\ pc' = "parse_expression_done"
    /\ UNCHANGED <<source, lex, tokens, exit_status, parse_in, gen_in, gen>>

NextExpr == ParseExpression

SpecExpr == InitExpr /\ [][NextExpr]_vars

-----------------------------------------------------------------------------
(* Properties of the parser.                                                 *)

RECURSIVE IsIfChain(_)
\* If(cond, Block, e) with e absent, an Else around a Block, or such an If.
IsIfChain(node) ==
    /\ node.type = "NODE_IF"
    /\ node.then_block.type = "NODE_BLOCK"
    /\ \/ node.else_block = Null
       \/ /\ node.else_block.type = "NODE_ELSE"
          /\ node.else_block.block.type = "NODE_BLOCK"
       \/ /\ node.else_block.type = "NODE_IF"
          /\ IsIfChain(node.else_block)

\* C1: a function body that holds an if statement, with or without else-if
\* and else branches, is accepted by the parser: ast_gen returns a program
\* whose function body holds If(cond, Block, else-branch), the else-branch
\* being absent, an Else around a Block, or a nested If.
C1_IfStatementAccepted ==
    (pc = "ast_gen_done" /\ parse_in \in IfPrograms) =>
        /\ parsed.node # Null
        /\ parsed.node.type = "NODE_PROGRAM"
        /\ Len(parsed.node.func_defs) = 1
        /\ Len(parsed.node.func_defs[1].root.stmts) = 1
        /\ IsIfChain(parsed.node.func_defs[1].root.stmts[1])

RECURSIVE FuncDefsIn(_)
\* The function definitions and declarations of a tree, nested ones included.
FuncDefsIn(node) ==
    CASE node = Null -> {}
      [] node.type = "NODE_PROGRAM" ->
            UNION {FuncDefsIn(node.func_defs[i]) : i \in 1..Len(node.func_defs)}
      [] node.type = "NODE_FUNC_DEF" -> {node} \cup FuncDefsIn(node.root)
      [] node.type = "NODE_BLOCK" ->
            UNION {FuncDefsIn(node.stmts[i]) : i \in 1..Len(node.stmts)}
      [] OTHER -> {}

\* C4: in every parameter list of a parsed program only the last parameter
\* is variadic, and a token vector in which an ellipsis is followed by
\* anything but ')' (a comma included) is not parsed: ast_gen returns null.
C4_VariadicIsLast ==
    pc = "ast_gen_done" =>
        /\ \A f \in FuncDefsIn(parsed.node) :
              \A k \in 1..Len(f.params) :
                  f.params[k].is_variadic => k = Len(f.params)
        /\ (\E i \in 1..(Len(parse_in) - 1) :
               /\ parse_in[i].type = "TOKEN_ELLIPSIS"
               /\ parse_in[i + 1].type # "TOKEN_RPAREN")
           => parsed.node = Null
        /\ \A rest \in SeqsUpTo(ParamAlphabet, MaxParamTokens - 2) :
              parse_in = Declaration(<<t_ellipsis, t_comma>> \o rest) =>
                  /\ Len(parsed.p.diags) = 1
                  /\ parsed.p.diags[1].msg =
                         "Variadic parameter must be the last in the list"

\* `int f(int a, ...);` is parsed and its second, last parameter is variadic.
C4_Witness ==
    /\ pc = "ast_gen_done"
    /\ parse_in = Declaration(<<t_int, t_a, t_comma, t_ellipsis>>)
    /\ parsed.node # Null
    /\ Len(parsed.node.func_defs[1].params) = 2
    /\ parsed.node.func_defs[1].params[2].is_variadic

OnlyTopLevel == "Only function definitions and imports are allowed at top level"

\* C5: a program is a sequence of function definitions, declarations and
\* imports.  When every top-level statement is one of these, ast_gen returns
\* a Program node with one item for each, in order; when another statement
\* is parsed at top level, ast_gen reports it and returns null.
C5_TopLevelItems ==
    pc = "ast_gen_done" =>
        /\ parsed.node # Null =>
              /\ parsed.node.type = "NODE_PROGRAM"
              /\ \A i \in 1..Len(parsed.node.func_defs) :
                    parsed.node.func_defs[i].type \in {"NODE_FUNC_DEF", "NODE_IMPORT"}
        /\ \A items \in SeqsUpTo(TopItems, MaxTopItems) :
              parse_in = TopProgram(items) =>
                  IF \A i \in 1..Len(items) : items[i] \in TopFuncOrImport
                  THEN /\ parsed.node # Null
                       /\ Len(parsed.node.func_defs) = Len(items)
                       /\ \A i \in 1..Len(items) :
                             parsed.node.func_defs[i].type =
                                 IF items[i] = TopImport THEN "NODE_IMPORT"
                                 ELSE "NODE_FUNC_DEF"
                  ELSE /\ parsed.node = Null
                       /\ Len(parsed.p.diags) = 1
                       /\ parsed.p.diags[1].msg = OnlyTopLevel

\* A function followed by a variable definition at top level is refused.
C5_Witness ==
    /\ pc = "ast_gen_done"
    /\ parse_in = TopProgram(<<TopFunction, TopDefinition>>)
    /\ parsed.node = Null
    /\ parsed.p.diags[1].msg = OnlyTopLevel

\* The reference: three levels, every operator left-associative, so the
\* root is the last operator of the lowest level present.
RefPrecedence(type) ==
    CASE type \in {"TOKEN_STAR", "TOKEN_SLASH", "TOKEN_PERCENT"} -> 3
      [] type \in {"TOKEN_PLUS", "TOKEN_MINUS"} -> 2
      [] OTHER -> 1

RefAtom(tok) ==
    IF tok.type = "TOKEN_NLIT"
    THEN [type |-> "NODE_NUMBER", lit_type |-> "TOKEN_NLIT", i64 |-> StrToLL(tok.lexeme),
          f64 |-> <<>>]
    ELSE [type |-> "NODE_IDENT", name |-> tok.lexeme]

RECURSIVE RefParse(_)
RefParse(e) ==
    IF Len(e) = 1 THEN RefAtom(e[1])
    ELSE LET ops  == {i \in 1..Len(e) : i % 2 = 0}
             low  == CHOOSE l \in 1..3 :
                        /\ \E i \in ops : RefPrecedence(e[i].type) = l
                        /\ \A i \in ops : RefPrecedence(e[i].type) >= l
             root == CHOOSE i \in ops :
                        /\ RefPrecedence(e[i].type) = low
                        /\ \A j \in ops : RefPrecedence(e[j].type) = low => j <= i
         IN  [type |-> "NODE_BINOP", op |-> e[root].type,
              left |-> RefParse(SubSeq(e, 1, root - 1)),
              right |-> RefParse(SubSeq(e, root + 1, Len(e)))]

\* C6: for a sequence of primaries joined by the binary operators * / %
\* (level 3), + - (level 2) and == != < > <= >= (level 1),
\* parse_expression(parser, 0) returns the tree of the reference parser and
\* stops at the token after the expression.
C6_PrecedenceClimbing ==
    pc = "parse_expression_done" =>
        LET e == SubSeq(parse_in, 1, Len(parse_in) - 2)
        IN  /\ ~parsed.p.error
            /\ parsed.node = RefParse(e)
            /\ parsed.p.pos = Len(e)

\* a + 1 * b is a + (1 * b), and a - 1 - b is (a - 1) - b.
C6_Witness ==
    /\ pc = "parse_expression_done"
    /\ \/ /\ parse_in = ExprTokens(<<t_plus, t_star>>)
          /\ parsed.node.op = "TOKEN_PLUS"
          /\ parsed.node.right.type = "NODE_BINOP"
          /\ parsed.node.right.op = "TOKEN_STAR"
       \/ /\ parse_in = ExprTokens(<<t_minus, t_minus>>)
          /\ parsed.node.left.type = "NODE_BINOP"
          /\ parsed.node.right.type = "NODE_NUMBER"

\* C7: once parser_error has reported an error the flag is set and stays
\* set for the rest of the parse; from then on no token is consumed, every
\* parse function that is entered or returns, returns null, and ast_gen
\* returns null.
C7_ErrorIsSticky ==
    pc = "ast_gen_done" =>
        LET log == parsed.p.log
        IN  /\ \A i \in 1..Len(log) : log[i].ev = "error" => log[i].error
            /\ \A i \in 1..(Len(log) - 1) :
                  log[i].error =>
                      /\ log[i + 1].error
                      /\ log[i + 1].pos = log[i].pos
                      /\ log[i + 1].ev \in {"enter", "return"}
                      /\ log[i + 1].ev = "return" => log[i + 1].null
            /\ parsed.p.diags # <<>> <=> parsed.p.error
            /\ parsed.p.error => parsed.node = Null

\* An error inside a nested block: the parse functions on the stack return
\* null one after another.
C7_Witness ==
    /\ pc = "ast_gen_done"
    /\ parsed.p.error
    /\ parsed.node = Null
    /\ Cardinality({i \in 1..Len(parsed.p.log) :
                       parsed.p.log[i].ev = "return" /\ parsed.p.log[i].error}) >= 5

-----------------------------------------------------------------------------
(* SpecGen: codegen_generate applied to a tree.  The trees are the programs  *)
(* ast_gen returns for token vectors, the if chains parse_if_statement       *)
(* builds, the same chains written with ElseIf nodes, a null root and a root *)
(* that is no Program.                                                       *)

t_void == Tok("TOKEN_KEYWORD", B(<<"v","o","i","d">>))
t_string == Tok("TOKEN_KEYWORD", B(<<"s","t","r","i","n","g">>))
t_hi == [Tok("TOKEN_SLIT", B(<<"\"","h","i","\"">>)) EXCEPT !.str = B(<<"h","i">>)]
t_yo == [Tok("TOKEN_SLIT", B(<<"\"","y","o","\"">>)) EXCEPT !.str = B(<<"y","o">>)]
NumTok(n) == Tok("TOKEN_NLIT", Dec(n))

GenReturn ==
    <<t_int, t_main, t_lparen, t_rparen, t_lbrace, t_return, t_0, t_semi, t_rbrace>>
GenLocal ==
    <<t_int, t_main, t_lparen, t_rparen, t_lbrace, t_int, t_x, t_assign, t_1, t_semi, t_return, t_x, t_semi, t_rbrace>>
GenUndefinedStore ==
    <<t_int, t_main, t_lparen, t_rparen, t_lbrace, t_y, t_assign, t_1, t_semi, t_return, t_0, t_semi, t_rbrace>>
GenUndefinedLoad ==
    <<t_int, t_main, t_lparen, t_rparen, t_lbrace, t_return, t_y, t_semi, t_rbrace>>
GenVariadicCall ==
    <<t_int, t_f, t_lparen, t_int, t_a, t_comma, t_ellipsis, t_rparen, t_semi, t_int, t_main, t_lparen, t_rparen, t_lbrace, t_f, t_lparen, t_1, t_comma, t_2, t_rparen, t_semi, t_return, t_0, t_semi, t_rbrace>>
GenAssignOperator ==
    <<t_int, t_main, t_lparen, t_rparen, t_lbrace, t_int, t_x, t_assign, t_1, t_assign, t_2, t_semi, t_return, t_0, t_semi, t_rbrace>>
GenUnknownType ==
    <<t_void, t_g, t_lparen, t_rparen, t_lbrace, t_return, t_0, t_semi, t_rbrace, t_int, t_main, t_lparen, t_rparen, t_lbrace, t_return, t_0, t_semi, t_rbrace>>
GenImport ==
    <<t_import, t_a, t_dot, t_b, t_semi, t_int, t_main, t_lparen, t_rparen, t_lbrace, t_return, t_0, t_semi, t_rbrace>>
GenArithmetic ==
    <<t_int, t_main, t_lparen, t_rparen, t_lbrace, t_int, t_x, t_assign, t_1, t_plus, t_2, t_star, t_3, t_semi, t_return, t_x, t_lt, t_3, t_semi, t_rbrace>>
GenInnerScope ==
    <<t_int, t_main, t_lparen, t_rparen, t_lbrace, t_lbrace, t_int, t_x, t_assign, t_1, t_semi, t_rbrace, t_return, t_x, t_semi, t_rbrace>>
GenString ==
    <<t_int, t_main, t_lparen, t_rparen, t_lbrace, t_string, t_x, t_assign, t_hi, t_semi, t_f, t_lparen, t_hi, t_comma, t_x, t_rparen, t_semi, t_return, t_0, t_semi, t_rbrace>>
GenParams ==
    <<t_int, t_g, t_lparen, t_int, t_a, t_comma, t_float, t_b, t_rparen, t_lbrace, t_return, t_a, t_semi, t_rbrace, t_int, t_main, t_lparen, t_rparen, t_lbrace, t_return, t_g, t_lparen, t_1, t_comma, t_2, t_rparen, t_semi, t_rbrace>>
\* int main() { return "hi" + 1; }
GenStringOperand ==
    <<t_int, t_main, t_lparen, t_rparen, t_lbrace, t_return, t_hi, t_plus, t_1, t_semi, t_rbrace>>
\* int main() { f("hi", "yo"); f("hi"); return 0; }
GenTwoStrings ==
    <<t_int, t_main, t_lparen, t_rparen, t_lbrace, t_f, t_lparen, t_hi, t_comma, t_yo, t_rparen, t_semi, t_f, t_lparen, t_hi, t_rparen, t_semi, t_return, t_0, t_semi, t_rbrace>>
\* int f(float a, ...); int main() { f(1, 2); return 0; }
GenVariadicFloat ==
    <<t_int, t_f, t_lparen, t_float, t_a, t_comma, t_ellipsis, t_rparen, t_semi, t_int, t_main, t_lparen, t_rparen, t_lbrace, t_f, t_lparen, t_1, t_comma, t_2, t_rparen, t_semi, t_return, t_0, t_semi, t_rbrace>>
\* int main() { int x = x + 1; return 0; }
GenSelfReference ==
    <<t_int, t_main, t_lparen, t_rparen, t_lbrace, t_int, t_x, t_assign, t_x, t_plus, t_1, t_semi, t_return, t_0, t_semi, t_rbrace>>
GenNestedFunction ==
    <<t_int, t_main, t_lparen, t_rparen, t_lbrace, t_int, t_g, t_lparen, t_rparen, t_lbrace, t_return, t_1, t_semi, t_rbrace, t_return, t_0, t_semi, t_rbrace>>

\* int g(int t0) { int x = 1; return x; } int main() { int y = 2; return y; }
GenParamNamedT0 ==
    <<t_int, t_g, t_lparen, t_int, t_t0, t_rparen, t_lbrace, t_int, t_x, t_assign, t_1, t_semi, t_return, t_x, t_semi, t_rbrace, t_int, t_main, t_lparen, t_rparen, t_lbrace, t_int, t_y, t_assign, t_2, t_semi, t_return, t_y, t_semi, t_rbrace>>

GenTokenPrograms ==
    {GenReturn, GenLocal, GenUndefinedStore, GenUndefinedLoad, GenVariadicCall, GenAssignOperator,
     GenUnknownType, GenImport, GenArithmetic, GenInnerScope,
     GenString, GenStringOperand, GenTwoStrings, GenVariadicFloat, GenSelfReference,
     GenParams, GenNestedFunction, GenParamNamedT0}

MaxArms == 3
MaxGarbageLen == 1
MaxCalls == 2

\* if ( 1 ) { return 1 ; } else if ( 2 ) { return 2 ; } ... [ else { return 0 ; } ]
RECURSIVE IfChainTokens(_, _, _)
IfChainTokens(i, k, with_else) ==
    <<t_if, t_lparen, NumTok(i), t_rparen, t_lbrace, t_return, NumTok(i), t_semi,
      t_rbrace>>
    \o (IF i < k THEN <<t_else>> \o IfChainTokens(i + 1, k, with_else)
        ELSE IF with_else
        THEN <<t_else, t_lbrace, t_return, t_0, t_semi, t_rbrace>>
        ELSE <<>>)

ParsedIfChain(k, with_else) ==
    parse_if_statement(ParserInit(IfChainTokens(1, k, with_else) \o <<t_rbrace, t_eof>>)).node

P0 == ParserInit(<<>>)

ArmBlock(i) ==
    ast_create_block(P0, <<ast_create_return(P0, ast_create_number_int(P0, i))>>)

RECURSIVE ElseIfTail(_, _, _)
ElseIfTail(i, k, with_else) ==
    IF i > k
    THEN IF with_else THEN ast_create_else(P0, ArmBlock(0)) ELSE Null
    ELSE ast_create_elseif(P0, ast_create_number_int(P0, i), ArmBlock(i),
                           ElseIfTail(i + 1, k, with_else))

ElseIfChain(k, with_else) ==
    ast_create_if(P0, ast_create_number_int(P0, 1), ArmBlock(1),
                  ElseIfTail(2, k, with_else))

\* int main() { <chain> return 9; }
ChainProgram(chain) ==
    ast_create_program(P0,
        <<ast_create_func_def(P0, B(<<"m","a","i","n">>), B(<<"i","n","t">>), <<>>,
              ast_create_block(P0, <<chain, ast_create_return(P0,
                                               ast_create_number_int(P0, 9))>>),
              FALSE)>>)

\* int x = 1; if (1) { return 1; } return x;
TwoFunctionsBody ==
    ast_create_block(P0,
        <<ast_create_assign(P0, B(<<"x">>), B(<<"i","n","t">>),
                            ast_create_number_int(P0, 1)),
          ParsedIfChain(1, FALSE),
          ast_create_return(P0, ast_create_ident(P0, B(<<"x">>)))>>)

\* int g() { <body> } int main() { <body> }
GenTwoFunctions ==
    ast_create_program(P0,
        <<ast_create_func_def(P0, B(<<"g">>), B(<<"i","n","t">>), <<>>,
                              TwoFunctionsBody, FALSE),
          ast_create_func_def(P0, B(<<"m","a","i","n">>), B(<<"i","n","t">>), <<>>,
                              TwoFunctionsBody, FALSE)>>)

ParserChainPrograms ==
    {ChainProgram(ParsedIfChain(k, e)) : k \in 1..MaxArms, e \in BOOLEAN}
ElseIfChainPrograms ==
    {ChainProgram(ElseIfChain(k, e)) : k \in 1..MaxArms, e \in BOOLEAN}

GenInputs ==
    {ast_gen(toks \o <<t_eof>>).node : toks \in GenTokenPrograms}
        \cup ParserChainPrograms \cup ElseIfChainPrograms
        \cup {GenTwoFunctions, Null, ArmBlock(1)}

\* The wait statuses of system(): 0, and 256 for an exit status of 1.
ExitStatuses == {0, 256}

InitGen ==
    /\ pc = "codegen_generate"
    /\ gen_in \in GenInputs
    /\ gen = GenNone
    /\ source = <<>> /\ lex = LexerInit /\ tokens = <<>> /\ exit_status = -1
    /\ parse_in = <<>> /\ parsed = ParsedNone

\* gen keeps, next to what the call returned and left: entry, the static ctx
\* the call found; calls, how many calls were made; prev, the return value
\* and the IR of the call before.
CodegenGenerate ==
    /\ pc = "codegen_generate"
    /\ \E fopen_ok \in BOOLEAN, qbe_result \in ExitStatuses, cc_result \in ExitStatuses,
          partial \in BOOLEAN, garbage_len \in 0..MaxGarbageLen :
          gen' = [fopen_ok |-> fopen_ok, qbe_result |-> qbe_result,
                  cc_result |-> cc_result, entry |-> CtxInit, calls |-> 1,
                  prev |-> GenNone.prev]
                 @@ codegen_generate(CtxInit, gen_in, fopen_ok, qbe_result, cc_result,
                                     partial, garbage_len)
    /\ pc' = "codegen_generate_done"
    /\ UNCHANGED <<source, lex, tokens, exit_status, parse_in, parsed, gen_in>>

\* The diagnostics and the names handed out are recorded for each call.
CallEntry(c) == [c EXCEPT !.diags = <<>>, !.names = <<>>]

\* A further call on the same Program in the same process: the static ctx is
\* what the call before left.
CodegenGenerateAgain ==
    /\ pc = "codegen_generate_done"
    /\ gen.calls < MaxCalls
    /\ \E fopen_ok \in BOOLEAN, qbe_result \in ExitStatuses, cc_result \in ExitStatuses,
          partial \in BOOLEAN, garbage_len \in 0..MaxGarbageLen :
          gen' = [fopen_ok |-> fopen_ok, qbe_result |-> qbe_result,
                  cc_result |-> cc_result, entry |-> gen.c, calls |-> gen.calls + 1,
                  prev |-> [rc |-> gen.rc, fopen_ok |-> gen.fopen_ok,
                            out |-> gen.c.out]]
                 @@ codegen_generate(CallEntry(gen.c), gen_in, fopen_ok, qbe_result,
                                     cc_result, partial, garbage_len)
    /\ UNCHANGED <<pc, source, lex, tokens, exit_status, parse_in, parsed, gen_in>>

NextGen == CodegenGenerate \/ CodegenGenerateAgain

SpecGen == InitGen /\ [][NextGen]_vars

-----------------------------------------------------------------------------
(* Spec: the driver, main() of main.c, on a source file.                     *)

\* The bytes of each source file; 10 is the newline.
SrcMain ==
    B(<<"i","n","t"," ","m","a","i","n","(",")"," ","{"," ","r","e","t",
        "u","r","n"," ","0",";"," ","}">>)
    \o <<10>>
SrcVariadicDecl ==
    B(<<"i","n","t"," ","f","(","i","n","t"," ","a",","," ",".",".",".",
        ")",";">>)
    \o <<10>>
SrcTopDefinition ==
    B(<<"i","n","t"," ","x"," ","="," ","1",";">>)
    \o <<10>>
SrcOpenString ==
    B(<<"i","n","t"," ","m","a","i","n","(",")"," ","{"," ","r","e","t",
        "u","r","n"," ","\"","o","o","p","s",";"," ","}">>)
    \o <<10>>
SrcImport ==
    B(<<"i","m","p","o","r","t"," ","s","t","d",".","i","o",";">>)
    \o <<10>>
    \o B(<<"i","n","t"," ","m","a","i","n","(",")"," ","{"," ","i","n","t",
        " ","x"," ","="," ","2"," ","+"," ","3"," ","*"," ","4",";",
        " ","r","e","t","u","r","n"," ","x",";"," ","}">>)
    \o <<10>>
SrcIf ==
    B(<<"i","n","t"," ","m","a","i","n","(",")"," ","{"," ","i","f"," ",
        "(","1",")"," ","{"," ","r","e","t","u","r","n"," ","1",";",
        " ","}"," ","}">>)
    \o <<10>>
SrcComments ==
    B(<<"/","*"," ","c"," ","*","/"," ","i","n","t"," ","m","a","i","n",
        "(",")"," ","{"," ","r","e","t","u","r","n"," ","'","a","'",
        ";"," ","}"," ","/","/"," ","t">>)
    \o <<10>>
SrcEmpty ==
    <<>>
SrcBadChar ==
    B(<<"i","n","t"," ","m","a","i","n","(",")"," ","{"," ","r","e","t",
        "u","r","n"," ","1"," ","@"," ","2",";"," ","}">>)
    \o <<10>>
SrcCompare ==
    B(<<"i","n","t"," ","f","(","i","n","t"," ","a",","," ","i","n","t",
        " ","b",")"," ","{"," ","r","e","t","u","r","n"," ","a"," ",
        "<","="," ","b",";"," ","}">>)
    \o <<10>>
SrcMissingBrace ==
    B(<<"i","n","t"," ","m","a","i","n","(",")"," ","{"," ","r","e","t",
        "u","r","n"," ","0",";">>)
    \o <<10>>

Sources == {SrcMain, SrcVariadicDecl, SrcTopDefinition, SrcOpenString, SrcImport, SrcIf,
            SrcComments, SrcEmpty, SrcBadChar, SrcCompare, SrcMissingBrace}

Init ==
    /\ pc = "main"
    /\ source \in Sources
    /\ lex = LexerInit
    /\ tokens = <<>>
    /\ exit_status = -1
    /\ parse_in = <<>> /\ parsed = ParsedNone
    /\ gen_in = Null /\ gen = GenNone

\* main up to the lexing loop: the argument count and fopen decide.
MainOpen ==
    /\ pc = "main"
    /\ \E argc \in {1, 2}, fopen_ok \in BOOLEAN :
          IF argc < 2 \/ ~fopen_ok
          THEN pc' = "exit" /\ exit_status' = 1
          ELSE pc' = "lex" /\ UNCHANGED exit_status
    /\ UNCHANGED <<source, lex, tokens, parse_in, parsed, gen_in, gen>>

\* One round of the `while (1)` loop of main.
MainLex ==
    /\ pc = "lex"
    /\ \E r \in {lexer_next(source, lex)} : \E o \in StrBufOutcomes(r.lx) :
          /\ lex' = r.lx
          /\ IF r.lx.hang
             THEN pc' = "lex_hang" /\ UNCHANGED <<tokens, exit_status>>
             ELSE IF o = "fault"
             THEN pc' = "lex_fault" /\ UNCHANGED <<tokens, exit_status>>
             ELSE IF r.tok.type = "TOKEN_ERROR"
             THEN pc' = "exit" /\ exit_status' = 1 /\ UNCHANGED tokens
             ELSE /\ tokens' = Append(tokens, r.tok)
                  /\ pc' = IF r.tok.type = "TOKEN_EOF" THEN "parse" ELSE "lex"
                  /\ UNCHANGED exit_status
    /\ UNCHANGED <<source, parse_in, parsed, gen_in, gen>>

\* The rest of main: the token dump, ast_gen, the tree dump, return 0.
MainParse ==
    /\ pc = "parse"
    /\ parse_in' = tokens
    /\ parsed' = ast_gen(tokens)
    /\ exit_status' = 0
    /\ pc' = "exit"
    /\ UNCHANGED <<source, lex, tokens, gen_in, gen>>

Next == MainOpen \/ MainLex \/ MainParse

Spec == Init /\ [][Next]_vars

-----------------------------------------------------------------------------
(* SpecLexer: lexer_next called on a source until it returns the eof token   *)
(* or an error token, as the lexing loop of main does.  The sources are the  *)
(* files of the driver, every byte string up to a length over the bytes that *)
(* start or end a comment, a literal or a line, every string up to a length  *)
(* over the bytes of the comparison operators, and a string literal and a    *)
(* char literal around every escape up to a length.                          *)

MaxScanLen == 5
MaxOperatorLen == 4
MaxEscapeLen == 4

ScanAlphabet == {10, Ch("\""), Ch("'"), Ch("\\"), Ch("/"), Ch("*"), Ch("a")}
OperatorAlphabet == {Ch("="), Ch("!"), Ch("<"), Ch(">"), Ch("a"), Ch(" ")}
EscapeAlphabet == {Ch("x"), Ch("1"), Ch("7"), Ch("f"), Ch("n"), Ch("z")}

ScanSources == SeqsUpTo(ScanAlphabet, MaxScanLen)
OperatorSources == SeqsUpTo(OperatorAlphabet, MaxOperatorLen)
EscapeBodies == SeqsUpTo(EscapeAlphabet, MaxEscapeLen) \ {<<>>}
EscapeSources ==
    {<<q, Ch("\\")>> \o body \o <<q>> : q \in {Ch("\""), Ch("'")}, body \in EscapeBodies}

\* /* a  (the comment is not closed) and a comment over two lines
SrcOpenComment == B(<<"i","n","t"," ","/","*"," ","a">>)
SrcLongComment == B(<<"/","*"," ","a">>) \o <<10>> \o B(<<"b"," ","*","/"," ","x">>) \o <<10>>

\* a block comment with a NUL byte in it: / * NUL * / x
SrcNulComment == B(<<"/","*">>) \o <<NUL>> \o B(<<"*","/","x">>)
\* a string literal of one byte more than str_buf holds
SrcLongString ==
    B(<<"\"">>) \o [i \in 1..(STR_BUF_SIZE + 1) |-> Ch("a")] \o B(<<"\"">>)
\* a NUL byte between two tokens
SrcNulByte == B(<<"a">>) \o <<NUL>> \o B(<<"b">>)

LexSources ==
    Sources \cup ScanSources \cup OperatorSources \cup EscapeSources
        \cup {SrcOpenComment, SrcLongComment, SrcNulComment, SrcNulByte,
              SrcLongString}

InitLexer ==
    /\ pc = "lexer_next"
    /\ source \in LexSources
    /\ lex = LexerInit
    /\ tokens = <<>>
    /\ exit_status = -1
    /\ parse_in = <<>> /\ parsed = ParsedNone
    /\ gen_in = Null /\ gen = GenNone

\* One call of lexer_next; the caller stops on the eof and on an error token.
\* A call that never returns leaves the caller in the call (lexer_hang).
LexerNext ==
    /\ pc = "lexer_next"
    /\ \E r \in {lexer_next(source, lex)} : \E o \in StrBufOutcomes(r.lx) :
          /\ lex' = r.lx
          /\ IF r.lx.hang
             THEN pc' = "lexer_hang" /\ UNCHANGED tokens
             ELSE IF o = "fault"
             THEN pc' = "lexer_fault" /\ UNCHANGED tokens
             ELSE /\ tokens' = Append(tokens, r.tok)
                  /\ pc' = IF r.tok.type \in {"TOKEN_EOF", "TOKEN_ERROR"}
                           THEN "lexer_done" ELSE "lexer_next"
    /\ UNCHANGED <<source, exit_status, parse_in, parsed, gen_in, gen>>

NextLexer == LexerNext

SpecLexer == InitLexer /\ [][NextLexer]_vars

-----------------------------------------------------------------------------
(* Properties of the emitter.                                                *)

RECURSIVE ChainArms(_)
\* The arm bodies of a chain, a final else counted.
ChainArms(node) ==
    CASE node = Null -> 0
      [] node.type \in {"NODE_IF", "NODE_ELSEIF"} -> 1 + ChainArms(node.else_block)
      [] node.type = "NODE_ELSE" -> 1
      [] OTHER -> 0

CountLines(out, Test(_)) == Cardinality({i \in 1..Len(out) : Test(out[i])})

\* C2: for an if chain of the shape the parser builds (an If whose
\* else-branch is a nested If or an Else) with k arm bodies, a final else
\* counted, the emitter writes the continuation label of the chain exactly
\* once and exactly k `jmp` instructions to it.  The chain is the first
\* statement of the only function, so its continuation label is @l0.
C2_ChainJumps ==
    (pc = "codegen_generate_done" /\ gen.fopen_ok /\ gen_in \in ParserChainPrograms) =>
        LET chain == gen_in.func_defs[1].root.stmts[1]
            cont  == B(<<"@","l">>) \o Dec(0)
            IsCont(l) == l.op = "label" /\ l.name = cont
            IsJump(l) == l.op = "jmp" /\ l.target = cont
        IN  /\ CountLines(gen.c.out, IsCont) = 1
            /\ CountLines(gen.c.out, IsJump) = ChainArms(chain)

\* C9: when codegen_generate returns 0 the .qbe and .asm files are gone.
C9_IntermediatesRemoved ==
    (pc = "codegen_generate_done" /\ gen.rc = 0) =>
        "qbe" \notin gen.files /\ "asm" \notin gen.files

SemanticDiagnostics ==
    {"Undefined variable", "Unknown type", "Unimplemented binary operator"}

\* C10: when the emitter reports a fatal semantic diagnostic (an undefined
\* variable, an unknown type, an unsupported binary operator),
\* codegen_generate returns non-zero, whatever the statuses of the backend
\* and of the linker.
C10_SemanticErrorFails ==
    (/\ pc = "codegen_generate_done"
     /\ \E i \in 1..Len(gen.c.diags) :
           /\ gen.c.diags[i].level = "ERROR_FATAL"
           /\ gen.c.diags[i].msg \in SemanticDiagnostics)
    => gen.rc # 0

RECURSIVE StringsIn(_)
\* The (length, bytes) pairs of the String nodes of a tree, a declaration
\* having no body.
StringsIn(node) ==
    CASE node = Null -> {}
      [] node.type = "NODE_PROGRAM" ->
            UNION {StringsIn(node.func_defs[i]) : i \in 1..Len(node.func_defs)}
      [] node.type = "NODE_FUNC_DEF" ->
            IF node.is_declaration THEN {} ELSE StringsIn(node.root)
      [] node.type = "NODE_BLOCK" ->
            UNION {StringsIn(node.stmts[i]) : i \in 1..Len(node.stmts)}
      [] node.type = "NODE_RETURN" -> StringsIn(node.expr)
      [] node.type = "NODE_FUNC_CALL" ->
            UNION {StringsIn(node.args[i]) : i \in 1..Len(node.args)}
      [] node.type = "NODE_ASSIGN" -> StringsIn(node.value)
      [] node.type = "NODE_BINOP" -> StringsIn(node.left) \cup StringsIn(node.right)
      [] node.type \in {"NODE_IF", "NODE_ELSEIF"} ->
            StringsIn(node.condition) \cup StringsIn(node.then_block)
                \cup StringsIn(node.else_block)
      [] node.type = "NODE_ELSE" -> StringsIn(node.block)
      [] node.type = "NODE_STRING" -> {[len |-> node.len, value |-> node.value]}
      [] OTHER -> {}

\* C11: after collect_strings the string pool holds exactly the distinct
\* (length, bytes) string literals that occur anywhere in a function body,
\* the operands of a binary operator included, each of them once, and
\* gen_string finds a pooled name for every String node it lowers.
C11_StringPool ==
    (pc = "codegen_generate_done" /\ gen.fopen_ok /\ gen_in.type = "NODE_PROGRAM") =>
        /\ {[len |-> gen.pool[i].len, value |-> gen.pool[i].value] :
                i \in 1..Len(gen.pool)} = StringsIn(gen_in)
        /\ Len(gen.pool) = Cardinality(StringsIn(gen_in))
        /\ \A i \in 1..Len(gen.c.diags) : gen.c.diags[i].msg # "String not collected"

\* C12: within one call of codegen_generate no two calls of new_temp and
\* new_label return the same name, the calls made for different functions
\* included, and every call of codegen_generate, the first one or one that
\* follows a call that succeeded or failed, finds both counters at 0.
C12_FreshNames ==
    pc = "codegen_generate_done" =>
        /\ gen.entry.temp_count = 0
        /\ gen.entry.label_count = 0
        /\ \A i \in 1..Len(gen.c.names) : \A j \in 1..Len(gen.c.names) :
               i # j => gen.c.names[i] # gen.c.names[j]

\* A second call that follows a failed one and hands out temporaries and
\* labels for two functions.
C12_Witness ==
    /\ pc = "codegen_generate_done"
    /\ Cardinality({i \in 1..Len(gen.c.out) : gen.c.out[i].op = "function"}) >= 2
    /\ gen.calls = 2 /\ gen.prev.fopen_ok /\ gen.prev.rc = 1 /\ gen.fopen_ok
    /\ \E i \in 1..Len(gen.c.names) : \E j \in 1..Len(gen.c.names) :
           /\ i # j
           /\ gen.c.names[i][1] = Ch("%") /\ gen.c.names[j][1] = Ch("%")
    /\ \E i \in 1..Len(gen.c.names) : \E j \in 1..Len(gen.c.names) :
           /\ i # j
           /\ gen.c.names[i][1] = Ch("@") /\ gen.c.names[j][1] = Ch("@")

\* C13: on every return path of codegen_generate the emitter state is the
\* initial one again (no scope, no function, no pooled string, the three
\* counters 0), and two successive calls on the same Program write the same
\* IR.
C13_ContextReset ==
    pc = "codegen_generate_done" =>
        /\ gen.c.current_scope = <<>>
        /\ gen.c.funcs = <<>>
        /\ gen.c.strings = <<>>
        /\ gen.c.temp_count = 0 /\ gen.c.label_count = 0 /\ gen.c.str_count = 0
        /\ (gen.calls >= 2 /\ gen.fopen_ok /\ gen.prev.fopen_ok) =>
               gen.c.out = gen.prev.out

\* A second call that wrote IR with pooled strings, scopes and temporaries
\* after a first one that did.
C13_Witness ==
    /\ pc = "codegen_generate_done"
    /\ gen.calls = 2 /\ gen.prev.fopen_ok /\ gen.fopen_ok /\ gen.rc = 0
    /\ gen.pool # <<>>
    /\ gen.c.names # <<>>
    /\ gen.prev.out # <<>>

\* The IR type the specification gives for a type name.
SpecTypeNames ==
    {B(<<"i","n","t">>), B(<<"f","l","o","a","t">>), B(<<"s","t","r","i","n","g">>),
     NoStr}
SpecQbeType(s) == IF s = B(<<"f","l","o","a","t">>) THEN Ch("d") ELSE Ch("l")

\* C19: the type mapping of the emitter gives `l` for `int`, `d` for
\* `float`, `l` for `string` and `l` for a null type name; the return type
\* in the header of a function is mapped so.
C19_TypeMapping ==
    (pc = "codegen_generate_done" /\ gen.fopen_ok /\ gen_in.type = "NODE_PROGRAM") =>
        /\ \A s \in SpecTypeNames : str_to_qbe_type(gen.c, s).t = SpecQbeType(s)
        /\ \A i \in 1..Len(gen.c.out) : \A k \in 1..Len(gen_in.func_defs) :
               (/\ gen.c.out[i].op = "function"
                /\ gen_in.func_defs[k].type = "NODE_FUNC_DEF"
                /\ gen_in.func_defs[k].name = gen.c.out[i].name
                /\ gen_in.func_defs[k].return_type \in SpecTypeNames)
               => gen.c.out[i].type = SpecQbeType(gen_in.func_defs[k].return_type)

-----------------------------------------------------------------------------
(* Properties of the driver.                                                 *)

\* C3: the front end accepts `int f(int a, ...);`: the lexer emits one
\* ellipsis token and the parser returns a function declaration whose last
\* parameter is variadic.
C3_VariadicDeclaration ==
    (pc = "exit" /\ source = SrcVariadicDecl /\ tokens # <<>>) =>
        /\ Cardinality({i \in 1..Len(tokens) : tokens[i].type = "TOKEN_ELLIPSIS"}) = 1
        /\ \A i \in 1..Len(tokens) : tokens[i].type # "TOKEN_DOT"
        /\ parsed.node # Null
        /\ Len(parsed.node.func_defs) = 1
        /\ parsed.node.func_defs[1].is_declaration
        /\ parsed.node.func_defs[1].params[Len(parsed.node.func_defs[1].params)].is_variadic

\* C8: main exits with 1 when the arguments, the file, lexing or parsing
\* fail and with 0 only when all of them succeed; on a lexing error it
\* exits with 1 and ast_gen is not called.  (main has no code generation
\* step.)
C8_ExitStatus ==
    pc = "exit" =>
        LET lexed == tokens # <<>> /\ tokens[Len(tokens)].type = "TOKEN_EOF"
        IN  /\ exit_status \in {0, 1}
            /\ exit_status = 0 <=> (lexed /\ parsed.node # Null)
            /\ ~lexed => (exit_status = 1 /\ parsed = ParsedNone)

-----------------------------------------------------------------------------
(* Properties of the lexer.                                                  *)

\* The token the last call of lexer_next returned.
LastToken == tokens[Len(tokens)]

\* The line and the column of the byte at offset off of a text: lines are
\* ended by a newline byte, both count from 1.
NewlinesBefore(src, off) == Cardinality({i \in 1..off : src[i] = 10})
LineAt(src, off) == 1 + NewlinesBefore(src, off)
ColumnAt(src, off) ==
    The({off + 1 - (CHOOSE i \in nl : \A j \in nl : j <= i)
         : nl \in {{0} \cup {i \in 1..off : src[i] = 10}}})

\* C14: for an unterminated string literal the fatal diagnostic and the
\* error token carry the line and the column of the opening `"`.
C14_OpenStringPosition ==
    (/\ pc = "lexer_done"
     /\ LastToken.type = "TOKEN_ERROR"
     /\ lex.diags # <<>>
     /\ lex.diags[Len(lex.diags)].msg = "Unterminated string literal")
    => /\ source[LastToken.pos + 1] = Ch("\"")
       /\ LastToken.line = LineAt(source, LastToken.pos)
       /\ LastToken.column = ColumnAt(source, LastToken.pos)
       /\ lex.diags[Len(lex.diags)].line = LineAt(source, LastToken.pos)
       /\ lex.diags[Len(lex.diags)].column = ColumnAt(source, LastToken.pos)

\* C15: for every token that is not the eof token, string and char literals
\* included, lexeme is source + pos, and the len bytes of the lexeme are
\* source[pos .. pos + len).
C15_LexemeAtPos ==
    \A i \in 1..Len(tokens) :
        tokens[i].type # "TOKEN_EOF" =>
            /\ tokens[i].lexoff = tokens[i].pos
            /\ tokens[i].lexeme = Slice(source, tokens[i].pos, tokens[i].len)

\* The token types whose pos and line lexer_next takes down together, before
\* it scans the token.
StampedAtStart ==
    {"TOKEN_EOF", "TOKEN_NLIT", "TOKEN_FLIT", "TOKEN_IDENT", "TOKEN_KEYWORD",
     "TOKEN_BLIT"} \cup {operators[i][2] : i \in 1..Len(operators)}

\* C16: at every point of a scan that started at (pos 0, line 1, column 1),
\* line is 1 plus the number of newline bytes in source[0 .. pos), whatever
\* the bytes are: in comments, in literals, after a backslash.
C16_LineCounts ==
    pc \in {"lexer_next", "lexer_done"} =>
        /\ lex.pos <= Len(source)
        /\ lex.line = 1 + NewlinesBefore(source, lex.pos)
        /\ \A i \in 1..Len(tokens) :
               tokens[i].type \in StampedAtStart =>
                   tokens[i].line = 1 + NewlinesBefore(source, tokens[i].pos)

\* A scan that ended on the third line after a string literal with a newline
\* in it.
C16_Witness ==
    /\ pc = "lexer_done"
    /\ lex.line >= 3
    /\ \E i \in 1..Len(tokens) :
          /\ tokens[i].type = "TOKEN_SLIT"
          /\ \E k \in 1..Len(tokens[i].str) : tokens[i].str[k] = 10

\* The comparison operators of two bytes.
TwoByteOperators ==
    {[op |-> B(<<"=","=">>), type |-> "TOKEN_EQ"],
     [op |-> B(<<"!","=">>), type |-> "TOKEN_NEQ"],
     [op |-> B(<<"<","=">>), type |-> "TOKEN_LTE"],
     [op |-> B(<<">","=">>), type |-> "TOKEN_GTE"]}

\* C17: wherever the source at the position of a token starts with `==`,
\* `!=`, `<=` or `>=`, lexer_next returns one token of two bytes of the type
\* EQ, NEQ, LTE or GTE and the lexer is two bytes further.
C17_TwoByteOperators ==
    (pc \in {"lexer_next", "lexer_done"} /\ tokens # <<>>) =>
        \A o \in TwoByteOperators :
            (/\ LastToken.pos + 2 <= Len(source)
             /\ Slice(source, LastToken.pos, 2) = o.op)
            => /\ LastToken.type = o.type
               /\ LastToken.len = 2
               /\ LastToken.lexeme = o.op
               /\ lex.pos = LastToken.pos + 2

\* Two operators of two bytes one after the other, the second one read after
\* a first token.
C17_Witness ==
    /\ pc = "lexer_next"
    /\ Len(tokens) = 2
    /\ tokens[1].type = "TOKEN_LTE"
    /\ tokens[2].type = "TOKEN_EQ"
    /\ lex.pos = 4

\* The escapes as the specification states them.  body is what follows the
\* backslash; the result is the byte and the number of bytes of body read.
OctalDigits == 48..55
HexDigits == (48..57) \cup (65..70) \cup (97..102)
DigitValue(d) == IF d <= 57 THEN d - 48 ELSE IF d <= 70 THEN d - 55 ELSE d - 87

RECURSIVE DigitRun(_, _, _), ValueIn(_, _)
DigitRun(s, Digits, max) ==
    IF s # <<>> /\ max > 0 /\ Head(s) \in Digits
    THEN 1 + DigitRun(Tail(s), Digits, max - 1)
    ELSE 0
ValueIn(digits, base) ==
    IF digits = <<>> THEN 0
    ELSE ValueIn(SubSeq(digits, 1, Len(digits) - 1), base) * base
             + DigitValue(digits[Len(digits)])

NamedEscapes ==
    (Ch("n") :> 10) @@ (Ch("t") :> 9) @@ (Ch("r") :> 13) @@ (Ch("a") :> 7)
        @@ (Ch("b") :> 8) @@ (Ch("f") :> 12) @@ (Ch("v") :> 11)

SpecEscape(body) ==
    IF body[1] = Ch("x")
    THEN The({[ch |-> ValueIn(SubSeq(body, 2, 1 + n), 16) % 256, used |-> 1 + n]
              : n \in {DigitRun(Tail(body), HexDigits, Len(body))}})
    ELSE IF body[1] \in OctalDigits
    THEN The({[ch |-> ValueIn(SubSeq(body, 1, n), 8) % 256, used |-> n]
              : n \in {DigitRun(body, OctalDigits, 3)}})
    ELSE IF body[1] \in DOMAIN NamedEscapes
    THEN [ch |-> NamedEscapes[body[1]], used |-> 1]
    ELSE [ch |-> body[1], used |-> 1]

\* The raw bytes of a literal are one escape and then bytes that are no
\* backslash.
OneEscape(raw) ==
    /\ Len(raw) >= 2
    /\ raw[1] = Ch("\\")
    /\ \A k \in 3..Len(raw) : raw[k] # Ch("\\")

\* C18: lexer_parse_escape, in a string and in a char literal: `\x` and hex
\* digits give the value of all the digits modulo 256; an octal escape reads
\* at most three octal digits and gives their value modulo 256; an escape
\* that is not known gives the character itself.
C18_Escapes ==
    \A i \in 1..Len(tokens) :
        /\ (tokens[i].type = "TOKEN_SLIT" /\ OneEscape(tokens[i].lexeme)) =>
              \E e \in {SpecEscape(Tail(tokens[i].lexeme))} :
                  tokens[i].str = <<e.ch>> \o SubSeq(tokens[i].lexeme, 2 + e.used,
                                                     Len(tokens[i].lexeme))
        /\ (/\ tokens[i].type = "TOKEN_CLIT"
            /\ OneEscape(SubSeq(tokens[i].lexeme, 2, Len(tokens[i].lexeme) - 1))) =>
              \E e \in {SpecEscape(SubSeq(tokens[i].lexeme, 3,
                                          Len(tokens[i].lexeme) - 1))} :
                  /\ tokens[i].i64 = e.ch
                  /\ e.used = Len(tokens[i].lexeme) - 3

\* A string literal of a backslash and four octal digits: three of them are
\* the escape, the fourth is a byte of its own.
C18_Witness ==
    /\ pc = "lexer_next"
    /\ Len(tokens) = 1
    /\ tokens[1].type = "TOKEN_SLIT"
    /\ tokens[1].len = 5
    /\ \A k \in 2..5 : tokens[1].lexeme[k] \in OctalDigits
    /\ Len(tokens[1].str) = 2

\* C20: every failure of the lexer (a string, a char literal or a block
\* comment that is not closed, a byte that starts no token) makes the call
\* of lexer_next that reports it return an error token, so a caller that
\* stops on error tokens gets no ordinary token after a diagnostic.
C20_DiagnosticMeansErrorToken ==
    (pc \in {"lexer_next", "lexer_done"} /\ lex.diags # <<>>) =>
        /\ tokens # <<>>
        /\ LastToken.type = "TOKEN_ERROR"

-----------------------------------------------------------------------------
(* Further properties of the emitter.                                        *)

\* C21: after the registration loop of codegen_generate the function table
\* has one entry for each top-level FuncDef of the Program, declarations and
\* definitions, and none for any other top-level item: an Import makes no
\* entry.
C21_FunctionTable ==
    (pc = "codegen_generate_done" /\ gen.fopen_ok /\ gen_in.type = "NODE_PROGRAM") =>
        /\ \A k \in 1..Len(gen_in.func_defs) :
               gen_in.func_defs[k].type = "NODE_FUNC_DEF" =>
                   Cardinality({i \in 1..Len(gen.registered) :
                                   gen.registered[i].node = gen_in.func_defs[k]}) >= 1
        /\ Len(gen.registered) =
               Cardinality({k \in 1..Len(gen_in.func_defs) :
                               gen_in.func_defs[k].type = "NODE_FUNC_DEF"})
        /\ \A i \in 1..Len(gen.registered) :
               gen.registered[i].node.type = "NODE_FUNC_DEF"

RECURSIVE StringWalk(_), StringWalkEach(_)
\* The bytes of the String nodes of a tree in the order a pre-order walk meets
\* them.
StringWalkEach(nodes) ==
    IF nodes = <<>> THEN <<>>
    ELSE StringWalk(Head(nodes)) \o StringWalkEach(Tail(nodes))
StringWalk(node) ==
    CASE node = Null -> <<>>
      [] node.type = "NODE_PROGRAM" -> StringWalkEach(node.func_defs)
      [] node.type = "NODE_FUNC_DEF" ->
            IF node.is_declaration THEN <<>> ELSE StringWalk(node.root)
      [] node.type = "NODE_BLOCK" -> StringWalkEach(node.stmts)
      [] node.type = "NODE_RETURN" -> StringWalk(node.expr)
      [] node.type = "NODE_FUNC_CALL" -> StringWalkEach(node.args)
      [] node.type = "NODE_ASSIGN" -> StringWalk(node.value)
      [] node.type = "NODE_BINOP" -> StringWalkEach(<<node.left, node.right>>)
      [] node.type \in {"NODE_IF", "NODE_ELSEIF"} ->
            StringWalkEach(<<node.condition, node.then_block, node.else_block>>)
      [] node.type = "NODE_ELSE" -> StringWalk(node.block)
      [] node.type = "NODE_STRING" -> <<node.value>>
      [] OTHER -> <<>>

\* Where a walk first meets a literal, 0 if it never does.
FirstMet(walk, value) == FirstIndex({k \in 1..Len(walk) : walk[k] = value})

\* The literal of a data entry: its bytes without the 0 that ends them.
DataValue(line) == SubSeq(line.bytes, 1, Len(line.bytes) - 1)

\* C22: the data entries of the pooled strings are written in the order in
\* which a pre-order walk of the tree first meets the literals: if A is met
\* before B, the entry of A, which has the smaller $strN number, is written
\* before the entry of B.
C22_PoolOrder ==
    (pc = "codegen_generate_done" /\ gen.fopen_ok /\ gen_in.type = "NODE_PROGRAM") =>
        \E walk \in {StringWalk(gen_in)} :
            \A i \in 1..Len(gen.c.out) : \A j \in 1..Len(gen.c.out) :
                (/\ gen.c.out[i].op = "data" /\ gen.c.out[j].op = "data"
                 /\ FirstMet(walk, DataValue(gen.c.out[i]))
                        < FirstMet(walk, DataValue(gen.c.out[j])))
                => /\ i < j
                   /\ \E a \in 0..Len(gen.pool) : \E b \in 0..Len(gen.pool) :
                         /\ a < b
                         /\ gen.c.out[i].gname = B(<<"$","s","t","r">>) \o Dec(a)
                         /\ gen.c.out[j].gname = B(<<"$","s","t","r">>) \o Dec(b)

\* The parameters of a callee before its variadic one.
RECURSIVE FixedParams(_)
FixedParams(params) ==
    IF params = <<>> \/ Head(params).is_variadic THEN <<>>
    ELSE <<Head(params)>> \o FixedParams(Tail(params))

\* C23: in a call of a known callee that is written, the IR type of argument
\* i is the declared type of the i-th parameter of the callee whenever that
\* parameter is not the variadic one, also when the callee has a variadic
\* tail.  The callees are the top-level functions of the Program, each name
\* defined once.
C23_ArgumentTypes ==
    (pc = "codegen_generate_done" /\ gen.fopen_ok /\ gen_in.type = "NODE_PROGRAM") =>
        \A l \in 1..Len(gen.c.out) : \A k \in 1..Len(gen_in.func_defs) :
            (/\ gen.c.out[l].op = "call"
             /\ gen_in.func_defs[k].type = "NODE_FUNC_DEF"
             /\ gen_in.func_defs[k].name = gen.c.out[l].name)
            => \E fixed \in {FixedParams(gen_in.func_defs[k].params)} :
                   \A i \in 1..Len(gen.c.out[l].args) :
                       i <= Len(fixed) =>
                           gen.c.out[l].args[i].ptype
                               = str_to_qbe_type(gen.c, fixed[i].type_name).t

\* The node is a definition `T x = e;` whose e is a binary operation.
IsDefinitionOfBinop(node) ==
    /\ node.type = "NODE_ASSIGN"
    /\ node.type_name # NoStr
    /\ node.value # Null
    /\ node.value.type = "NODE_BINOP"

\* C24: when the emitter lowers a definition `T x = e;` it writes the alloc
\* of x and binds x in the current scope before it evaluates e: an x inside
\* e resolves to the new slot and the alloc comes before every instruction
\* written for e.  The definition is the first statement of the first
\* function, so the instructions before its alloc are those of e.
C24_AllocBeforeValue ==
    (/\ pc = "codegen_generate_done" /\ gen.fopen_ok /\ gen_in.type = "NODE_PROGRAM"
     /\ gen_in.func_defs # <<>>
     /\ gen_in.func_defs[1].type = "NODE_FUNC_DEF"
     /\ ~gen_in.func_defs[1].is_declaration
     /\ gen_in.func_defs[1].root.type = "NODE_BLOCK"
     /\ gen_in.func_defs[1].root.stmts # <<>>
     /\ IsDefinitionOfBinop(gen_in.func_defs[1].root.stmts[1]))
    => \E a \in {FirstIndex({i \in 1..Len(gen.c.out) : gen.c.out[i].op = "alloc"})} :
           /\ a # 0
           /\ \A i \in 1..Len(gen.c.out) : i < a => gen.c.out[i].op # "binop"
           /\ \A i \in 1..Len(gen.c.diags) : gen.c.diags[i].msg # "Undefined variable"

-----------------------------------------------------------------------------
(* SpecScope: the scope stack of the emitter under every sequence of up to   *)
(* MaxScopeOps steps: push_scope, a definition (new_temp and add_sym, as     *)
(* gen_assign makes one), pop_scope, find_sym, and gen_block or gen_func_def *)
(* on a tree with blocks and definitions of its own.  gen holds ctx (c), the *)
(* steps made (ops), the result of the last find_sym (found) and the scope   *)
(* stack before the last gen_block or gen_func_def (before).                 *)

MaxScopeOps == 6

ScopeNames == {B(<<"x">>), B(<<"y">>)}

\* { int x = 1; { int x = 2; y = 3; } x = 4; }
ScopeBlockShadow ==
    ast_create_block(P0,
        <<ast_create_assign(P0, B(<<"x">>), B(<<"i","n","t">>),
                            ast_create_number_int(P0, 1)),
          ast_create_block(P0,
              <<ast_create_assign(P0, B(<<"x">>), B(<<"i","n","t">>),
                                  ast_create_number_int(P0, 2)),
                ast_create_assign(P0, B(<<"y">>), NoStr,
                                  ast_create_number_int(P0, 3))>>),
          ast_create_assign(P0, B(<<"x">>), NoStr, ast_create_number_int(P0, 4))>>)

\* int g(int y) { int x = y; return x; }
ScopeFunction ==
    ast_create_func_def(P0, B(<<"g">>), B(<<"i","n","t">>),
        <<ast_create_param(P0, B(<<"y">>), B(<<"i","n","t">>))>>,
        ast_create_block(P0,
            <<ast_create_assign(P0, B(<<"x">>), B(<<"i","n","t">>),
                                ast_create_ident(P0, B(<<"y">>))),
              ast_create_return(P0, ast_create_ident(P0, B(<<"x">>)))>>),
        FALSE)

ScopeNodes == {ScopeBlockShadow, ScopeFunction}

NotFound == [name |-> NoStr, ptr |-> NoStr, vtype |-> 0]

InitScope ==
    /\ pc = "scope"
    /\ gen = [c |-> CtxInit, ops |-> <<>>, found |-> NotFound, before |-> <<>>]
    /\ gen_in = Null
    /\ source = <<>> /\ lex = LexerInit /\ tokens = <<>> /\ exit_status = -1
    /\ parse_in = <<>> /\ parsed = ParsedNone

PushScope ==
    /\ pc = "scope" /\ Len(gen.ops) < MaxScopeOps
    /\ gen' = [gen EXCEPT !.c = push_scope(@), !.ops = Append(@, [kind |-> "push"])]
    /\ UNCHANGED <<pc, source, lex, tokens, exit_status, parse_in, parsed, gen_in>>

\* pop_scope reads ctx.current_scope->prev: it is called on an open scope.
PopScope ==
    /\ pc = "scope" /\ Len(gen.ops) < MaxScopeOps
    /\ gen.c.current_scope # <<>>
    /\ gen' = [gen EXCEPT !.c = pop_scope(@), !.ops = Append(@, [kind |-> "pop"])]
    /\ UNCHANGED <<pc, source, lex, tokens, exit_status, parse_in, parsed, gen_in>>

\* The definition branch of gen_assign: ptr = new_temp(); add_sym(name, ptr, vtype).
Define ==
    /\ pc = "scope" /\ Len(gen.ops) < MaxScopeOps
    /\ gen.c.current_scope # <<>>
    /\ \E name \in ScopeNames : \E ptr \in {new_temp(gen.c)} :
          gen' = [gen EXCEPT
                     !.c = add_sym(ptr.c, name, ptr.name, Ch("w")),
                     !.ops = Append(@, [kind |-> "define", name |-> name,
                                        ptr |-> ptr.name])]
    /\ UNCHANGED <<pc, source, lex, tokens, exit_status, parse_in, parsed, gen_in>>

FindSym ==
    /\ pc = "scope" /\ Len(gen.ops) < MaxScopeOps
    /\ \E name \in ScopeNames : \E vi \in {find_sym(gen.c, name)} :
          gen' = [gen EXCEPT
                     !.c = vi.c,
                     !.found = [name |-> name, ptr |-> vi.ptr, vtype |-> vi.vtype],
                     !.ops = Append(@, [kind |-> "find"])]
    /\ UNCHANGED <<pc, source, lex, tokens, exit_status, parse_in, parsed, gen_in>>

\* gen_block on a block, gen_func_def on a function.
Lower ==
    /\ pc = "scope" /\ Len(gen.ops) < MaxScopeOps
    /\ \E node \in ScopeNodes :
          gen' = [gen EXCEPT
                     !.c = IF node.type = "NODE_FUNC_DEF" THEN gen_func_def(@, node)
                           ELSE gen_block(@, node),
                     !.before = gen.c.current_scope,
                     !.ops = Append(@, [kind |-> "lower"])]
    /\ UNCHANGED <<pc, source, lex, tokens, exit_status, parse_in, parsed, gen_in>>

NextScope == PushScope \/ PopScope \/ Define \/ FindSym \/ Lower

SpecScope == InitScope /\ [][NextScope]_vars

RECURSIVE OpenScopes(_)
\* Block scoping read from the steps made: the open scopes, the outermost
\* first, each with its definitions in the order they were made.
OpenScopes(ops) ==
    IF ops = <<>> THEN <<>>
    ELSE The({
         CASE op.kind = "push" -> Append(open, <<>>)
           [] op.kind = "pop" -> SubSeq(open, 1, Len(open) - 1)
           [] op.kind = "define" ->
                 [open EXCEPT ![Len(open)] = Append(@, [name |-> op.name,
                                                        ptr |-> op.ptr])]
           [] OTHER -> open
         : open \in {OpenScopes(SubSeq(ops, 1, Len(ops) - 1))},
           op \in {ops[Len(ops)]}})

\* The binding block scoping gives a name: the latest definition of the
\* name in the innermost open scope that has one, NoStr if there is none.
Innermost(open, name) ==
    The({IF having = {} THEN NoStr
         ELSE The({inner[CHOOSE i \in DOMAIN inner :
                             /\ inner[i].name = name
                             /\ \A j \in DOMAIN inner :
                                    inner[j].name = name => j <= i].ptr
                   : inner \in {open[CHOOSE k \in having : \A j \in having : j <= k]}})
         : having \in {{k \in 1..Len(open) :
                           \E i \in 1..Len(open[k]) : open[k][i].name = name}}})

\* C25: name resolution follows block scoping after every sequence of block
\* entries, definitions and block exits: find_sym returns the binding of the
\* innermost open scope that defines the name, the latest definition in that
\* scope; a binding made in a block that was closed is not returned; the
\* scope stack after gen_block or gen_func_def is the stack before it.
C25_BlockScoping ==
    pc = "scope" =>
        /\ \A name \in ScopeNames :
               find_sym(gen.c, name).ptr = Innermost(OpenScopes(gen.ops), name)
        /\ (gen.ops # <<>> /\ gen.ops[Len(gen.ops)].kind = "find") =>
               gen.found.ptr = Innermost(OpenScopes(gen.ops), gen.found.name)
        /\ (gen.ops # <<>> /\ gen.ops[Len(gen.ops)].kind = "lower") =>
               gen.c.current_scope = gen.before

\* find_sym has returned the later of two definitions of a name in the
\* inner scope, the outer scope defining the name as well, after a block
\* with definitions of its own was lowered and closed.
C25_Witness ==
    /\ pc = "scope"
    /\ gen.ops # <<>> /\ gen.ops[Len(gen.ops)].kind = "find"
    /\ \E i \in 1..Len(gen.ops) : gen.ops[i].kind = "lower"
    /\ Len(gen.c.current_scope) = 2
    /\ \E i \in 1..Len(gen.c.current_scope[2]) :
          gen.c.current_scope[2][i].name = gen.found.name
    /\ gen.c.current_scope[1] # <<>>
    /\ gen.found.ptr = gen.c.current_scope[1][1].ptr

-----------------------------------------------------------------------------
(* Further properties of the lexer and of the parser.                        *)

\* C26: every call of lexer_next returns, and returns the eof token or
\* leaves pos larger than it found it (the token starts at or after the
\* pos the call found); pos never exceeds len.  So the loop of the driver
\* ends after at most len + 1 calls, for every source buffer.
C26_LexerProgress ==
    pc \in {"lexer_next", "lexer_done", "lexer_hang"} =>
        /\ pc # "lexer_hang"
        /\ lex.pos <= Len(source)
        /\ Len(tokens) <= Len(source) + 1
        /\ (tokens # <<>> /\ LastToken.type # "TOKEN_EOF") => lex.pos > LastToken.pos

\* C28: the number of cooked bytes a string literal writes to the scratch
\* buffer never exceeds its 1024 bytes, whatever the source buffer is.
C28_ScratchBufferBound == lex.str_len <= STR_BUF_SIZE

\* The index of the eof token of the vector ast_gen was given.
EofIndex == Len(parse_in) - 1

\* C27: during ast_gen the position of the parser never goes past the index
\* of the eof token: no parser_advance leaves pos beyond it (so no
\* parser_peek and no parser_advance reads beyond it) and the look-ahead of
\* the import case reads no token beyond it.
C27_NoReadPastEof ==
    pc = "ast_gen_done" =>
        /\ parsed.p.pos <= EofIndex
        /\ \A i \in 1..Len(parsed.p.log) :
              /\ parsed.p.log[i].pos >= 0
              /\ parsed.p.log[i].pos <= EofIndex

\* ast_gen has read a vector that ends inside an import (`import a` and the
\* eof): the look-ahead has read the eof token, the last one of the vector.
C27_Witness ==
    /\ pc = "ast_gen_done"
    /\ \E i \in 1..Len(parsed.p.log) :
          /\ parsed.p.log[i].ev = "lookahead"
          /\ parsed.p.log[i].pos = EofIndex
    /\ \E i \in 1..Len(parsed.p.log) :
          /\ parsed.p.log[i].ev = "advance"
          /\ parsed.p.log[i].pos = EofIndex

\* The FuncDef nodes below the top-level items of a Program.
NestedFuncDefs(program) ==
    UNION {IF program.func_defs[i].type = "NODE_FUNC_DEF"
           THEN FuncDefsIn(program.func_defs[i].root)
           ELSE FuncDefsIn(program.func_defs[i])
           : i \in 1..Len(program.func_defs)}

\* C29: in every Program ast_gen returns the FuncDef nodes are top-level
\* items only: a function definition or declaration inside a function body
\* or a block makes ast_gen return null.
C29_FuncDefsAtTopLevel ==
    (pc = "ast_gen_done" /\ parsed.node # Null) => NestedFuncDefs(parsed.node) = {}

\* The index of the `function` line of the function that line j of the
\* output is in, 0 when j is in none.
HeaderOf(out, j) ==
    The({IF hs = {} THEN 0 ELSE CHOOSE i \in hs : \A h \in hs : h <= i
         : hs \in {{i \in 1..j : out[i].op = "function"}}})

\* The registers the header of a function names for its parameters.
ParamRegisters(header) ==
    {header.params[k].name : k \in {k \in 1..Len(header.params) :
                                       ~header.params[k].variadic}}

\* The lines of the output that define a name: alloc, binop and call.
Defining(out) == {j \in 1..Len(out) : "dst" \in DOMAIN out[j]}

\* C30: within one emitted function no name is defined twice: the name of
\* no instruction is the register of a parameter of the function, whatever
\* the parameter is called, and no two instructions define the same name.
C30_NamesDefinedOnce ==
    (pc = "codegen_generate_done" /\ gen.fopen_ok) =>
        \A j \in Defining(gen.c.out) : \E h \in {HeaderOf(gen.c.out, j)} :
            /\ h # 0
            /\ gen.c.out[j].dst \notin ParamRegisters(gen.c.out[h])
            /\ \A k \in Defining(gen.c.out) :
                  (k # j /\ HeaderOf(gen.c.out, k) = h)
                      => gen.c.out[k].dst # gen.c.out[j].dst

=============================================================================
